---- MODULE Spec2Model ----
(***************************************************************************)
(* Model of the LinkedIn resolution pipeline of backend/linkedin_scraper.py *)
(* (LinkedInScraper.scrape_profile_by_name and the strategies it runs).    *)
(* Python strings are TLA+ strings; str methods are operators over them.   *)
(***************************************************************************)
EXTENDS Integers, Sequences, FiniteSets, TLC

(* ------------------------------------------------------------------ *)
(* Python str primitives                                               *)
(* ------------------------------------------------------------------ *)

UpperChars == "ABCDEFGHIJKLMNOPQRSTUVWXYZ"

LowerChars == "abcdefghijklmnopqrstuvwxyz"

Digits == "0123456789"

\* s[i-1] of Python, 1-based here
Char(s, i) == SubSeq(s, i, i)

\* c in s, for a one-character c
CharIn(c, s) == \E i \in 1..Len(s) : Char(s, i) = c

IndexIn(c, s) == CHOOSE i \in 1..Len(s) : Char(s, i) = c

\* str.lower() on one character
LowerChar(c) == IF CharIn(c, UpperChars) THEN Char(LowerChars, IndexIn(c, UpperChars)) ELSE c

\* str.upper() on one character
UpperChar(c) == IF CharIn(c, LowerChars) THEN Char(UpperChars, IndexIn(c, LowerChars)) ELSE c

RECURSIVE Lower(_)
\* str.lower()
Lower(s) == IF s = "" THEN "" ELSE LowerChar(Char(s, 1)) \o Lower(SubSeq(s, 2, Len(s)))

IsSpace(c) == c = " "

IsAlpha(c) == CharIn(c, UpperChars) \/ CharIn(c, LowerChars)

\* str.isalnum() on one character
IsAlnum(c) == IsAlpha(c) \/ CharIn(c, Digits)

RECURSIVE LStrip(_)
LStrip(s) == IF s # "" /\ IsSpace(Char(s, 1)) THEN LStrip(SubSeq(s, 2, Len(s))) ELSE s

RECURSIVE RStrip(_)
RStrip(s) == IF s # "" /\ IsSpace(Char(s, Len(s))) THEN RStrip(SubSeq(s, 1, Len(s) - 1)) ELSE s

\* str.strip()
Strip(s) == RStrip(LStrip(s))

\* s.startswith(p)
StartsWith(s, p) == Len(p) <= Len(s) /\ SubSeq(s, 1, Len(p)) = p

RECURSIVE FindFrom(_, _, _)
FindFrom(sub, s, i) == IF i + Len(sub) - 1 > Len(s) THEN 0
                       ELSE IF SubSeq(s, i, i + Len(sub) - 1) = sub THEN i
                       ELSE FindFrom(sub, s, i + 1)

\* s.find(sub): 1-based position of the first occurrence, 0 when there is none
Find(sub, s) == FindFrom(sub, s, 1)

RECURSIVE SplitOn(_, _)
\* s.split(sep) for a non-empty separator
SplitOn(s, sep) == LET at == Find(sep, s)
                   IN  IF at = 0 THEN <<s>>
                       ELSE <<SubSeq(s, 1, at - 1)>> \o SplitOn(SubSeq(s, at + Len(sep), Len(s)), sep)

\* sub in s
Contains(sub, s) == Find(sub, s) # 0

RECURSIVE FilterEmpty(_)
FilterEmpty(ws) == IF ws = <<>> THEN <<>>
                   ELSE (IF Head(ws) = "" THEN <<>> ELSE <<Head(ws)>>) \o FilterEmpty(Tail(ws))

\* s.split(): split on runs of whitespace, no empty words
Split(s) == FilterEmpty(SplitOn(s, " "))

RECURSIVE Replace(_, _, _)
\* s.replace(old, new) for a one-character old
Replace(s, old, new) == IF s = "" THEN ""
                        ELSE (IF Char(s, 1) = old THEN new ELSE Char(s, 1)) \o Replace(SubSeq(s, 2, Len(s)), old, new)

RECURSIVE TitleFrom(_, _)
TitleFrom(s, prevCased) == IF s = "" THEN ""
                           ELSE (IF prevCased THEN LowerChar(Char(s, 1)) ELSE UpperChar(Char(s, 1)))
                                \o TitleFrom(SubSeq(s, 2, Len(s)), IsAlpha(Char(s, 1)))

\* str.title()
Title(s) == TitleFrom(s, FALSE)

RECURSIVE RStripChar(_, _)
\* s.rstrip(c)
RStripChar(s, c) == IF s # "" /\ Char(s, Len(s)) = c THEN RStripChar(SubSeq(s, 1, Len(s) - 1), c) ELSE s

RECURSIVE KeepChars(_, _)
\* ''.join(c for c in s if c.isalnum() or c in extra)
KeepChars(s, extra) == IF s = "" THEN ""
                       ELSE (IF IsAlnum(Char(s, 1)) \/ CharIn(Char(s, 1), extra) THEN Char(s, 1) ELSE "")
                            \o KeepChars(SubSeq(s, 2, Len(s)), extra)

\* seq[:n]
Take(seq, n) == SubSeq(seq, 1, IF Len(seq) < n THEN Len(seq) ELSE n)

InSeq(x, seq) == \E i \in 1..Len(seq) : seq[i] = x

Last(seq) == seq[Len(seq)]

RECURSIVE Dedup(_)
\* order-preserving removal of duplicates (the seen-set loop)
Dedup(seq) == IF seq = <<>> THEN <<>>
              ELSE IF InSeq(Last(seq), SubSeq(seq, 1, Len(seq) - 1)) THEN Dedup(SubSeq(seq, 1, Len(seq) - 1))
              ELSE Dedup(SubSeq(seq, 1, Len(seq) - 1)) \o <<Last(seq)>>

(* ------------------------------------------------------------------ *)
(* Tables                                                               *)
(* ------------------------------------------------------------------ *)

\* Python's None (a value no str equals)
None == "<None>"

\* bool(v) of a str-or-None value
Truthy(v) == v # None /\ v # ""

\* manual_database of check_manual_database, in insertion order: <<name, company, url>>
manual_database ==
    <<
        <<"satya nadella", "microsoft", "https://www.linkedin.com/in/satyanadella/">>,
        <<"satya nadella", "", "https://www.linkedin.com/in/satyanadella/">>,
        <<"tim cook", "apple", "https://www.linkedin.com/in/tim-cook-1b4ee/">>,
        <<"tim cook", "", "https://www.linkedin.com/in/tim-cook-1b4ee/">>,
        <<"sundar pichai", "google", "https://www.linkedin.com/in/sundarpichai/">>,
        <<"sundar pichai", "", "https://www.linkedin.com/in/sundarpichai/">>,
        <<"elon musk", "tesla", "https://www.linkedin.com/in/elonmusk/">>,
        <<"elon musk", "", "https://www.linkedin.com/in/elonmusk/">>,
        <<"jeff bezos", "amazon", "https://www.linkedin.com/in/jeffreybezos/">>,
        <<"jeff bezos", "", "https://www.linkedin.com/in/jeffreybezos/">>,
        <<"mark zuckerberg", "meta", "https://www.linkedin.com/in/markzuckerberg/">>,
        <<"mark zuckerberg", "facebook", "https://www.linkedin.com/in/markzuckerberg/">>,
        <<"mark zuckerberg", "", "https://www.linkedin.com/in/markzuckerberg/">>,
        <<"reid hoffman", "linkedin", "https://www.linkedin.com/in/reidhoffman/">>,
        <<"reid hoffman", "", "https://www.linkedin.com/in/reidhoffman/">>,
        <<"jensen huang", "nvidia", "https://www.linkedin.com/in/jenhsunhuang/">>,
        <<"jensen huang", "", "https://www.linkedin.com/in/jenhsunhuang/">>,
        <<"melinda gates", "", "https://www.linkedin.com/in/melindagates/">>,
        <<"melinda french gates", "", "https://www.linkedin.com/in/melindagates/">>,
        <<"bill gates", "", "https://www.linkedin.com/in/williamhgates/">>,
        <<"warren buffett", "", "https://www.linkedin.com/in/warrenbuffett/">>,
        <<"richard branson", "virgin", "https://www.linkedin.com/in/virginbranson/">>,
        <<"richard branson", "", "https://www.linkedin.com/in/virginbranson/">>,
        <<"simon sinek", "", "https://www.linkedin.com/in/simon-sinek-2609923/">>,
        <<"daniel pink", "", "https://www.linkedin.com/in/danielpink/">>,
        <<"adam grant", "", "https://www.linkedin.com/in/adamgrant/">>,
        <<"david ackley", "bts", "https://www.linkedin.com/in/daveackley/">>,
        <<"david ackley", "", "https://www.linkedin.com/in/daveackley/">>
    >>

\* nickname_map of construct_linkedin_url, in insertion order
construct_nickname_map ==
    <<
        <<"david", "dave">>,
        <<"michael", "mike">>,
        <<"william", "bill">>,
        <<"robert", "bob">>,
        <<"richard", "rick">>,
        <<"james", "jim">>,
        <<"thomas", "tom">>,
        <<"christopher", "chris">>,
        <<"anthony", "tony">>,
        <<"matthew", "matt">>,
        <<"daniel", "dan">>,
        <<"andrew", "andy">>,
        <<"benjamin", "ben">>,
        <<"jonathan", "jon">>,
        <<"joseph", "joe">>,
        <<"joshua", "josh">>,
        <<"nicholas", "nick">>,
        <<"timothy", "tim">>,
        <<"steven", "steve">>,
        <<"charles", "chuck">>,
        <<"gregory", "greg">>,
        <<"patrick", "pat">>,
        <<"samuel", "sam">>,
        <<"alexander", "alex">>,
        <<"frederick", "fred">>,
        <<"douglas", "doug">>,
        <<"stephen", "steve">>,
        <<"edward", "ed">>,
        <<"eugene", "gene">>,
        <<"frank", "frank">>,
        <<"gerald", "jerry">>,
        <<"harold", "harry">>,
        <<"leonard", "len">>,
        <<"martin", "marty">>,
        <<"paul", "paul">>,
        <<"ronald", "ron">>,
        <<"donald", "don">>,
        <<"kenneth", "ken">>
    >>

\* nickname_map of url_matches_person_name as written (the literal repeats the key 'steve')
matcher_nickname_map ==
    <<
        <<"david", "dave">>, <<"dave", "david">>,
        <<"michael", "mike">>, <<"mike", "michael">>,
        <<"william", "bill">>, <<"bill", "william">>,
        <<"robert", "bob">>, <<"bob", "robert">>,
        <<"richard", "rick">>, <<"rick", "richard">>,
        <<"james", "jim">>, <<"jim", "james">>,
        <<"thomas", "tom">>, <<"tom", "thomas">>,
        <<"christopher", "chris">>, <<"chris", "christopher">>,
        <<"timothy", "tim">>, <<"tim", "timothy">>,
        <<"daniel", "dan">>, <<"dan", "daniel">>,
        <<"andrew", "andy">>, <<"andy", "andrew">>,
        <<"benjamin", "ben">>, <<"ben", "benjamin">>,
        <<"matthew", "matt">>, <<"matt", "matthew">>,
        <<"jonathan", "jon">>, <<"jon", "jonathan">>,
        <<"joseph", "joe">>, <<"joe", "joseph">>,
        <<"joshua", "josh">>, <<"josh", "joshua">>,
        <<"nicholas", "nick">>, <<"nick", "nicholas">>,
        <<"steven", "steve">>, <<"steve", "steven">>,
        <<"stephen", "steve">>, <<"steve", "stephen">>,
        <<"alexander", "alex">>, <<"alex", "alexander">>,
        <<"anthony", "tony">>, <<"tony", "anthony">>,
        <<"charles", "chuck">>, <<"chuck", "charles">>,
        <<"gregory", "greg">>, <<"greg", "gregory">>,
        <<"patrick", "pat">>, <<"pat", "patrick">>,
        <<"samuel", "sam">>, <<"sam", "samuel">>,
        <<"frederick", "fred">>, <<"fred", "frederick">>,
        <<"douglas", "doug">>, <<"doug", "douglas">>,
        <<"edward", "ed">>, <<"ed", "edward">>,
        <<"ronald", "ron">>, <<"ron", "ronald">>,
        <<"donald", "don">>, <<"don", "donald">>,
        <<"kenneth", "ken">>, <<"ken", "kenneth">>
    >>

\* d[key] of a dict literal given as a sequence of pairs: the last pair with that key wins
DictGet(pairs, key) == pairs[CHOOSE i \in 1..Len(pairs) : /\ pairs[i][1] = key
                                                          /\ \A j \in (i + 1)..Len(pairs) : pairs[j][1] # key][2]

\* key in d
DictHas(pairs, key) == \E i \in 1..Len(pairs) : pairs[i][1] = key

(* ------------------------------------------------------------------ *)
(* Pure functions of LinkedInScraper                                    *)
(* ------------------------------------------------------------------ *)

\* the index of the first entry of manual_database with this key, 0 when absent
DbIndex(name, company) == IF \E i \in 1..Len(manual_database) : manual_database[i][1] = name /\ manual_database[i][2] = company
                          THEN CHOOSE i \in 1..Len(manual_database) : manual_database[i][1] = name /\ manual_database[i][2] = company
                          ELSE 0

\* the entries the partial-company loop accepts, in iteration order
PartialHits(name_lower, company_lower) ==
    {i \in 1..Len(manual_database) : /\ manual_database[i][1] = name_lower
                                     /\ \/ Contains(company_lower, manual_database[i][2])
                                        \/ Contains(manual_database[i][2], company_lower)}

Min(S) == CHOOSE m \in S : \A n \in S : m <= n

\* check_manual_database comparing the raw arguments with the keys (no lower(), no strip())
check_manual_database_raw(person_name, company_name) ==
    IF DbIndex(person_name, company_name) # 0 THEN manual_database[DbIndex(person_name, company_name)][3]
    ELSE IF DbIndex(person_name, "") # 0 THEN manual_database[DbIndex(person_name, "")][3]
    ELSE IF company_name # "" /\ PartialHits(person_name, company_name) # {}
         THEN manual_database[Min(PartialHits(person_name, company_name))][3]
    ELSE None

check_manual_database(person_name, company_name) ==
    LET name_lower == Strip(Lower(person_name))
        company_lower == IF company_name # "" THEN Strip(Lower(company_name)) ELSE ""
    IN  IF DbIndex(name_lower, company_lower) # 0 THEN manual_database[DbIndex(name_lower, company_lower)][3]
        ELSE IF DbIndex(name_lower, "") # 0 THEN manual_database[DbIndex(name_lower, "")][3]
        ELSE IF company_lower # "" /\ PartialHits(name_lower, company_lower) # {}
             THEN manual_database[Min(PartialHits(name_lower, company_lower))][3]
        ELSE None

RECURSIVE LongWordsLower(_)
\* [word.lower() for word in words if len(word) > 1]
LongWordsLower(words) == IF words = <<>> THEN <<>>
                         ELSE (IF Len(Head(words)) > 1 THEN <<Lower(Head(words))>> ELSE <<>>) \o LongWordsLower(Tail(words))

RECURSIVE ExpandNicknames(_)
\* expanded_name_words of url_matches_person_name
ExpandNicknames(words) == IF words = <<>> THEN <<>>
                          ELSE <<Head(words)>>
                               \o (IF DictHas(matcher_nickname_map, Head(words)) THEN <<DictGet(matcher_nickname_map, Head(words))>> ELSE <<>>)
                               \o ExpandNicknames(Tail(words))

\* name_variations of url_matches_person_name for one first-name variant
MatcherVariations(first_var, last_name) ==
    << first_var \o last_name,
       first_var \o "-" \o last_name,
       first_var \o "." \o last_name,
       first_var \o "_" \o last_name,
       Char(first_var, 1) \o last_name >>

\* linkedin_url.split('/in/')[1].split('/')[0].split('?')[0]
UsernameOf(linkedin_url) == SplitOn(SplitOn(SplitOn(linkedin_url, "/in/")[2], "/")[1], "?")[1]

url_matches_person_name(linkedin_url, person_name) ==
    IF ~Contains("/in/", linkedin_url) THEN FALSE
    ELSE LET username_lower == Lower(UsernameOf(linkedin_url))
             name_words == LongWordsLower(Split(person_name))
             expanded_name_words == ExpandNicknames(name_words)
             first_variations == IF name_words = <<>> THEN <<>>
                                 ELSE <<name_words[1]>> \o (IF DictHas(matcher_nickname_map, name_words[1])
                                                            THEN <<DictGet(matcher_nickname_map, name_words[1])>> ELSE <<>>)
         IN  \/ \E i \in 1..Len(expanded_name_words) : Contains(expanded_name_words[i], username_lower)
             \/ /\ Len(name_words) >= 2
                /\ \E f \in 1..Len(first_variations) :
                     \E v \in 1..5 : Contains(MatcherVariations(first_variations[f], Last(name_words))[v], username_lower)

\* patterns of construct_linkedin_url for one first-name variant
ConstructPatterns(fname, last_name) ==
    IF last_name # ""
    THEN << fname \o last_name,
            fname \o "-" \o last_name,
            Char(fname, 1) \o last_name,
            fname \o "." \o last_name,
            fname \o "_" \o last_name,
            last_name \o fname,
            last_name \o "-" \o fname >>
    ELSE << fname >>

\* first_name_variations of construct_linkedin_url
first_name_variations(first_name) ==
    <<first_name>> \o (IF DictHas(construct_nickname_map, first_name) THEN <<DictGet(construct_nickname_map, first_name)>> ELSE <<>>)

RECURSIVE FlatPatterns(_, _)
FlatPatterns(variations, last_name) == IF variations = <<>> THEN <<>>
                                       ELSE ConstructPatterns(Head(variations), last_name) \o FlatPatterns(Tail(variations), last_name)

\* url_patterns of construct_linkedin_url; <<>> when the name has no words
url_patterns(person_name) ==
    LET name_parts == Split(Lower(person_name))
    IN  IF name_parts = <<>> THEN <<>>
        ELSE FlatPatterns(first_name_variations(name_parts[1]), IF Len(name_parts) > 1 THEN Last(name_parts) ELSE "")

\* the URL construct_linkedin_url probes for one pattern
ConstructedUrl(pattern) == "https://www.linkedin.com/in/" \o KeepChars(pattern, "-._") \o "/"

\* urlparse(url).netloc for scheme://netloc/path
Netloc(url) == IF Contains("://", url)
               THEN SplitOn(SplitOn(SplitOn(SplitOn(url, "://")[2], "/")[1], "?")[1], "#")[1]
               ELSE ""

\* urlparse(url).path for scheme://netloc/path
UrlPath(url) == LET rest == IF Contains("://", url) THEN SubSeq(url, Find("://", url) + 3, Len(url)) ELSE url
                    noq == SplitOn(SplitOn(rest, "?")[1], "#")[1]
                IN  IF Contains("://", url)
                    THEN (IF Find("/", noq) = 0 THEN "" ELSE SubSeq(noq, Find("/", noq), Len(noq)))
                    ELSE noq

validate_linkedin_url(url) == Contains("linkedin.com", Netloc(url)) /\ Contains("/in/", UrlPath(url))

\* profile_data as the fields the resolution reads
Profile(name, company, url) == [name |-> name, company |-> company, url |-> url]

\* the None that scrape_profile returns
NoProfile == [none |-> TRUE]

create_mock_profile_data(linkedin_url) ==
    LET url_parts == SplitOn(linkedin_url, "/in/")
        username == RStripChar(url_parts[2], "/")
    IN  IF Len(url_parts) > 1
        THEN IF username \in {"satyanadella", "satya-nadella"} THEN Profile("Satya Nadella", "Microsoft", linkedin_url)
             ELSE IF username \in {"tim-cook-1b4ee", "timcook"} THEN Profile("Tim Cook", "Apple", linkedin_url)
             ELSE IF username \in {"sundarpichai"} THEN Profile("Sundar Pichai", "Google", linkedin_url)
             ELSE Profile(Title(Replace(username, "-", " ")), "Technology Company", linkedin_url)
        ELSE Profile("Professional", "Company", linkedin_url)

\* matching_words of validate_profile_match
MatchingWords(searched_words, profile_words) ==
    Cardinality({i \in 1..Len(searched_words) : Len(searched_words[i]) > 1 /\ InSeq(searched_words[i], profile_words)})

\* validate_profile_match with the company check ahead of the word and initials checks
validate_profile_match_company_first(profile_data, searched_name, searched_company) ==
    LET profile_name == Strip(Lower(profile_data.name))
        searched_name_lower == Strip(Lower(searched_name))
        searched_words == Split(searched_name_lower)
        profile_words == Split(profile_name)
        min2 == IF Len(searched_words) < 2 THEN Len(searched_words) ELSE 2
    IN  IF profile_name = "" \/ searched_name_lower = "" THEN FALSE
        ELSE IF profile_name = searched_name_lower THEN TRUE
        ELSE IF searched_company # "" /\ Contains(Lower(searched_company), Lower(profile_data.company)) THEN FALSE
        ELSE IF MatchingWords(searched_words, profile_words) >= min2 THEN TRUE
        ELSE IF /\ Len(searched_words) >= 2
                /\ Contains(Last(searched_words), profile_name)
                /\ Contains(Char(searched_words[1], 1), profile_name) THEN TRUE
        ELSE FALSE

validate_profile_match(profile_data, searched_name, searched_company) ==
    LET profile_name == Strip(Lower(profile_data.name))
        searched_name_lower == Strip(Lower(searched_name))
        searched_words == Split(searched_name_lower)
        profile_words == Split(profile_name)
        min2 == IF Len(searched_words) < 2 THEN Len(searched_words) ELSE 2
    IN  IF profile_name = "" \/ searched_name_lower = "" THEN FALSE
        ELSE IF profile_name = searched_name_lower THEN TRUE
        ELSE IF MatchingWords(searched_words, profile_words) >= min2 THEN TRUE
        ELSE IF /\ Len(searched_words) >= 2
                /\ Contains(Last(searched_words), profile_name)
                /\ Contains(Char(searched_words[1], 1), profile_name) THEN TRUE
        ELSE IF searched_company # "" /\ Contains(Lower(searched_company), Lower(profile_data.company)) THEN FALSE
        ELSE FALSE

\* search_method and found of ProfileService.search_linkedin_profile_only
search_linkedin_profile_only(linkedin_url) ==
    [linkedin_url |-> linkedin_url,
     search_method |-> IF Truthy(linkedin_url) THEN "manual_database" ELSE "search_failed",
     found |-> Truthy(linkedin_url)]

(* ------------------------------------------------------------------ *)
(* Inputs and external responses                                        *)
(* ------------------------------------------------------------------ *)

\* the longest list of profile URLs one search result page yields
MaxResults == 4

\* (person_name, company_name) queries
Queries ==
    { <<"Satya Nadella", "Microsoft">>,
      <<"Bill Gates", "">>,
      <<"Jane Doe", "Acme Corp">>,
      <<"David Smith", "Acme Corp">>,
      <<"", "">> }

\* clean profile URLs the search result pages can hold
CandidateUrls ==
    { "https://www.linkedin.com/in/janedoe/",
      "https://www.linkedin.com/in/dave-smith/",
      "https://www.linkedin.com/in/acme-corp/",
      "https://www.linkedin.com/in/john-roe/" }

\* the distinct profile links of one search result page, in page order
PageLinks == {links \in UNION {[1..n -> CandidateUrls] : n \in 0..MaxResults} :
                \A i, j \in 1..Len(links) : links[i] = links[j] => i = j}

\* what _extract_linkedin_urls_from_soup returns for one page: the links as the anchor scan finds
\* them, followed by the same links again when the CSS selector scan matches the anchors too
FoundLists == PageLinks \cup {links \o links : links \in PageLinks}

\* response.status_code values of the backends
HttpStatuses == {200, 301, 302, 404, 429, 503, 999}

\* names extract_name can read from a fetched profile page ("" when the page hides it)
ProfileNames == {"", "Jane Doe", "William H. Gates"}

\* companies extract_company can read from a fetched profile page
ProfileCompanies == {"Acme Corp"}

(* ------------------------------------------------------------------ *)
(* State                                                                *)
(* ------------------------------------------------------------------ *)

VARIABLES
    person_name,      \* argument of scrape_profile_by_name / search_linkedin_profile
    company_name,     \* argument of scrape_profile_by_name / search_linkedin_profile
    pc,               \* position of the call
    manual_result,    \* local of search_linkedin_profile
    qi,               \* index i of the search_queries loop of search_linkedin_profile
    ui,               \* index of the search_url loop of google_search_linkedin
    linkedin_urls,    \* local of search_linkedin_profile
    duckduckgo_result,\* local of search_linkedin_profile
    di,               \* index i of the search_queries loop of duckduckgo_search_linkedin
    pi,               \* index of the url_patterns loop of construct_linkedin_url
    constructed_url,  \* local of search_linkedin_profile
    linkedin_url,     \* return value of search_linkedin_profile
    profile_data,     \* return value of scrape_profile
    result,           \* return value of scrape_profile_by_name
    strategies,       \* history: the strategies invoked, in order
    origin,           \* history: the return statement that produced linkedin_url
    evaluated,        \* history: the URLs passed to url_matches_person_name
    rate_limited,     \* history: the primary backend answered 429 in this call
    fault_seen,       \* history: an external call raised in this call
    slept,            \* history: time.sleep ran since the last external request
    google_reqs,      \* history: requests.get calls of google_search_linkedin
    ddg_reqs,         \* history: requests.get calls of duckduckgo_search_linkedin
    probes,           \* history: requests.head calls of test_linkedin_url
    probed_ok         \* history: the first URL whose existence probe succeeded

\* linkedin_data before a call: the fields create_fallback_briefing reads
NoLinkedinData == [name |-> "", title |-> "", company |-> ""]

\* no answer of the chat completions endpoint yet
NoReply == [status |-> 0, kind |-> "none", confidence_score |-> [type |-> "absent", text |-> ""]]

\* no briefing returned yet
NoBriefing == [origin |-> "none", executive_summary |-> "", recent_activity |-> "", confidence_score |-> 0]

\* concurrent requests served by the module-level ProfileService
MaxCalls == 2

Calls == 1..MaxCalls

\* no headers: before the session is set up, or no request sent
NoHeaders == [user_agent |-> None, referer |-> None, written_by |-> 0]

\* frame-begin
VARIABLES
    nickname_map,         \* the nickname_map consulted: "construct" or "matcher"
    word,                 \* the given-name token looked up
    nickname              \* the tokens nickname_map gave, one per lookup, each looked up from the one before

\* the state of a nickname lookup
table_vars == <<nickname_map, word, nickname>>

\* no nickname lookup is going on
TableIdle ==
    /\ nickname_map = "none"
    /\ word = ""
    /\ nickname = <<>>

VARIABLES
    test_url,             \* the url argument of _clean_linkedin_url
    cleaned               \* the values _clean_linkedin_url returned, each call given the value before

\* the state of a call of _clean_linkedin_url
clean_vars == <<test_url, cleaned>>

\* no URL is being cleaned
CleanIdle ==
    /\ test_url = None
    /\ cleaned = <<>>

VARIABLES
    news_person,          \* the person_name argument of search_person_news
    news_company,         \* the company_name argument of search_person_news
    news_pc,              \* position of the call of search_person_news
    processed,            \* local of process_articles
    outcomes,             \* history: every article of the response with what process_articles did with it
    final_articles        \* return value of search_person_news

\* the state of a call of search_person_news
news_vars == <<news_person, news_company, news_pc, processed, outcomes, final_articles>>

\* no call of search_person_news is going on
NewsIdle ==
    /\ news_person = ""
    /\ news_company = ""
    /\ news_pc = "idle"
    /\ processed = <<>>
    /\ outcomes = <<>>
    /\ final_articles = <<>>

VARIABLES
    route,                \* the route the request came to: "by_name" or "linkedin_url_only"
    request_person,       \* person_name of the request body
    request_company,      \* company_name of the request body
    response              \* what the route answered

\* the state of a request to a search route
route_vars == <<route, request_person, request_company, response>>

\* no request is being served
RouteIdle ==
    /\ route = "none"
    /\ request_person = ""
    /\ request_company = ""
    /\ response = "none"

VARIABLES
    client_ready,         \* self.client_ready of the AIProcessor
    linkedin_data,        \* the linkedin_data argument of generate_briefing
    news_count,           \* len(news_articles) of the news_articles argument
    brief_pc,             \* position of the call of generate_briefing
    ai_reply,             \* what requests.post gave: its status and the JSON text of the message
    briefing              \* return value of generate_briefing

\* the state of a call of generate_briefing
brief_vars == <<client_ready, linkedin_data, news_count, brief_pc, ai_reply, briefing>>

\* no call of generate_briefing is going on
BriefIdle ==
    /\ client_ready = FALSE
    /\ linkedin_data = NoLinkedinData
    /\ news_count = 0
    /\ brief_pc = "idle"
    /\ ai_reply = NoReply
    /\ briefing = NoBriefing

VARIABLES
    session_headers,      \* self.session.headers of the shared LinkedInScraper, with the call that wrote them last
    call_url,             \* the linkedin_url argument of each call
    call_pc,              \* position of each call
    chosen_agent,         \* the value random.choice(USER_AGENTS) gave each call
    sent_headers,         \* history: the headers the session.get of each call sent
    call_result           \* return value of each call

\* the state of the calls of scrape_profile that share one LinkedInScraper
sess_vars == <<session_headers, call_url, call_pc, chosen_agent, sent_headers, call_result>>

\* no call of scrape_profile is going on
SessIdle ==
    /\ session_headers = NoHeaders
    /\ call_url = [c \in Calls |-> None]
    /\ call_pc = [c \in Calls |-> "idle"]
    /\ chosen_agent = [c \in Calls |-> None]
    /\ sent_headers = [c \in Calls |-> NoHeaders]
    /\ call_result = [c \in Calls |-> NoProfile]

VARIABLES
    lookup_name,          \* the person_name argument of check_manual_database
    lookup_companies,     \* the company_name argument of each call
    lookup_steps,         \* history: the return statement each call left by
    lookup_results        \* the value each call returned

\* the state of calls of check_manual_database for one name
lookup_vars == <<lookup_name, lookup_companies, lookup_steps, lookup_results>>

\* no call of check_manual_database is going on
LookupIdle ==
    /\ lookup_name = ""
    /\ lookup_companies = <<>>
    /\ lookup_steps = <<>>
    /\ lookup_results = <<>>

VARIABLES
    candidate_url,        \* the linkedin_url argument of url_matches_person_name
    candidate_for,        \* the person_name argument of url_matches_person_name
    url_verdict           \* what url_matches_person_name returned: "accepted" or "rejected"

\* the state of a call of url_matches_person_name
umatch_vars == <<candidate_url, candidate_for, url_verdict>>

\* no call of url_matches_person_name is going on
UmatchIdle ==
    /\ candidate_url = ""
    /\ candidate_for = ""
    /\ url_verdict = "none"

VARIABLES
    match_profile,        \* the profile_data argument of validate_profile_match
    match_name,           \* the searched_name argument of validate_profile_match
    match_companies,      \* the searched_company argument of each call
    match_rules,          \* history: the method by whose return statement each call left
    match_verdicts        \* the boolean each call returned

\* the state of calls of validate_profile_match for one profile and name
pmatch_vars == <<match_profile, match_name, match_companies, match_rules, match_verdicts>>

\* no call of validate_profile_match is going on
PmatchIdle ==
    /\ match_profile = NoProfile
    /\ match_name = ""
    /\ match_companies = <<>>
    /\ match_rules = <<>>
    /\ match_verdicts = <<>>

VARIABLES
    construct_name,       \* the person_name argument of construct_linkedin_url
    construct_pc,         \* position of the call of construct_linkedin_url
    pattern_index,        \* index of the loop over url_patterns
    probed,               \* history: the URLs given to test_linkedin_url, in order
    construct_result      \* return value of construct_linkedin_url

\* the state of a call of construct_linkedin_url
construct_vars == <<construct_name, construct_pc, pattern_index, probed, construct_result>>

\* no call of construct_linkedin_url is going on
ConstructIdle ==
    /\ construct_name = ""
    /\ construct_pc = "idle"
    /\ pattern_index = 0
    /\ probed = <<>>
    /\ construct_result = None

\* the state outside a call of scrape_profile_by_name
aux == <<table_vars, clean_vars, news_vars, route_vars, brief_vars, sess_vars, lookup_vars, umatch_vars, pmatch_vars, construct_vars>>

AuxIdle ==
    /\ TableIdle
    /\ CleanIdle
    /\ NewsIdle
    /\ RouteIdle
    /\ BriefIdle
    /\ SessIdle
    /\ LookupIdle
    /\ UmatchIdle
    /\ PmatchIdle
    /\ ConstructIdle

\* the state of a call of scrape_profile_by_name
search_vars == <<person_name, company_name, pc, manual_result, qi, ui, linkedin_urls, duckduckgo_result, di, pi,
                 constructed_url, linkedin_url, profile_data, result, strategies, origin, evaluated, rate_limited,
                 fault_seen, slept, google_reqs, ddg_reqs, probes, probed_ok>>

\* no call of scrape_profile_by_name is going on
SearchIdle ==
    /\ person_name = ""
    /\ company_name = ""
    /\ pc = "idle"
    /\ manual_result = None
    /\ qi = 0
    /\ ui = 0
    /\ linkedin_urls = <<>>
    /\ duckduckgo_result = None
    /\ di = 0
    /\ pi = 0
    /\ constructed_url = None
    /\ linkedin_url = None
    /\ profile_data = NoProfile
    /\ result = NoProfile
    /\ strategies = <<>>
    /\ origin = "none"
    /\ evaluated = <<>>
    /\ rate_limited = FALSE
    /\ fault_seen = FALSE
    /\ slept = FALSE
    /\ google_reqs = 0
    /\ ddg_reqs = 0
    /\ probes = 0
    /\ probed_ok = None

\* everything but the state of a nickname lookup
outside_table == <<search_vars, clean_vars, news_vars, route_vars, brief_vars, sess_vars, lookup_vars, umatch_vars, pmatch_vars, construct_vars>>

OutsideTableIdle ==
    /\ SearchIdle
    /\ CleanIdle
    /\ NewsIdle
    /\ RouteIdle
    /\ BriefIdle
    /\ SessIdle
    /\ LookupIdle
    /\ UmatchIdle
    /\ PmatchIdle
    /\ ConstructIdle

\* everything but the state of a call of _clean_linkedin_url
outside_clean == <<search_vars, table_vars, news_vars, route_vars, brief_vars, sess_vars, lookup_vars, umatch_vars, pmatch_vars, construct_vars>>

OutsideCleanIdle ==
    /\ SearchIdle
    /\ TableIdle
    /\ NewsIdle
    /\ RouteIdle
    /\ BriefIdle
    /\ SessIdle
    /\ LookupIdle
    /\ UmatchIdle
    /\ PmatchIdle
    /\ ConstructIdle

\* everything but the state of a call of search_person_news
outside_news == <<search_vars, table_vars, clean_vars, route_vars, brief_vars, sess_vars, lookup_vars, umatch_vars, pmatch_vars, construct_vars>>

OutsideNewsIdle ==
    /\ SearchIdle
    /\ TableIdle
    /\ CleanIdle
    /\ RouteIdle
    /\ BriefIdle
    /\ SessIdle
    /\ LookupIdle
    /\ UmatchIdle
    /\ PmatchIdle
    /\ ConstructIdle

\* everything but the state of a request to a search route
outside_route == <<search_vars, table_vars, clean_vars, news_vars, brief_vars, sess_vars, lookup_vars, umatch_vars, pmatch_vars, construct_vars>>

OutsideRouteIdle ==
    /\ SearchIdle
    /\ TableIdle
    /\ CleanIdle
    /\ NewsIdle
    /\ BriefIdle
    /\ SessIdle
    /\ LookupIdle
    /\ UmatchIdle
    /\ PmatchIdle
    /\ ConstructIdle

\* everything but the state of a call of generate_briefing
outside_brief == <<search_vars, table_vars, clean_vars, news_vars, route_vars, sess_vars, lookup_vars, umatch_vars, pmatch_vars, construct_vars>>

OutsideBriefIdle ==
    /\ SearchIdle
    /\ TableIdle
    /\ CleanIdle
    /\ NewsIdle
    /\ RouteIdle
    /\ SessIdle
    /\ LookupIdle
    /\ UmatchIdle
    /\ PmatchIdle
    /\ ConstructIdle

\* everything but the state of the calls of scrape_profile that share one LinkedInScraper
outside_sess == <<search_vars, table_vars, clean_vars, news_vars, route_vars, brief_vars, lookup_vars, umatch_vars, pmatch_vars, construct_vars>>

OutsideSessIdle ==
    /\ SearchIdle
    /\ TableIdle
    /\ CleanIdle
    /\ NewsIdle
    /\ RouteIdle
    /\ BriefIdle
    /\ LookupIdle
    /\ UmatchIdle
    /\ PmatchIdle
    /\ ConstructIdle

\* everything but the state of calls of check_manual_database for one name
outside_lookup == <<search_vars, table_vars, clean_vars, news_vars, route_vars, brief_vars, sess_vars, umatch_vars, pmatch_vars, construct_vars>>

OutsideLookupIdle ==
    /\ SearchIdle
    /\ TableIdle
    /\ CleanIdle
    /\ NewsIdle
    /\ RouteIdle
    /\ BriefIdle
    /\ SessIdle
    /\ UmatchIdle
    /\ PmatchIdle
    /\ ConstructIdle

\* everything but the state of a call of url_matches_person_name
outside_umatch == <<search_vars, table_vars, clean_vars, news_vars, route_vars, brief_vars, sess_vars, lookup_vars, pmatch_vars, construct_vars>>

OutsideUmatchIdle ==
    /\ SearchIdle
    /\ TableIdle
    /\ CleanIdle
    /\ NewsIdle
    /\ RouteIdle
    /\ BriefIdle
    /\ SessIdle
    /\ LookupIdle
    /\ PmatchIdle
    /\ ConstructIdle

\* everything but the state of calls of validate_profile_match for one profile and name
outside_pmatch == <<search_vars, table_vars, clean_vars, news_vars, route_vars, brief_vars, sess_vars, lookup_vars, umatch_vars, construct_vars>>

OutsidePmatchIdle ==
    /\ SearchIdle
    /\ TableIdle
    /\ CleanIdle
    /\ NewsIdle
    /\ RouteIdle
    /\ BriefIdle
    /\ SessIdle
    /\ LookupIdle
    /\ UmatchIdle
    /\ ConstructIdle

\* everything but the state of a call of construct_linkedin_url
outside_construct == <<search_vars, table_vars, clean_vars, news_vars, route_vars, brief_vars, sess_vars, lookup_vars, umatch_vars, pmatch_vars>>

OutsideConstructIdle ==
    /\ SearchIdle
    /\ TableIdle
    /\ CleanIdle
    /\ NewsIdle
    /\ RouteIdle
    /\ BriefIdle
    /\ SessIdle
    /\ LookupIdle
    /\ UmatchIdle
    /\ PmatchIdle

vars == <<search_vars, aux>>
\* frame-end

query == <<person_name, company_name>>

locals == <<manual_result, qi, ui, linkedin_urls, duckduckgo_result, di, pi, constructed_url>>

history == <<strategies, origin, evaluated, rate_limited, fault_seen, slept, google_reqs, ddg_reqs, probes, probed_ok>>

\* search_queries of search_linkedin_profile
search_queries ==
    <<"\"" \o person_name \o "\" site:linkedin.com/in/">>
    \o (IF company_name # "" THEN <<"\"" \o person_name \o "\" site:linkedin.com/in/ \"" \o company_name \o "\"">> ELSE <<>>)
    \o <<"\"" \o person_name \o "\" linkedin profile">>

\* search_queries of duckduckgo_search_linkedin
ddg_search_queries ==
    << person_name \o " linkedin",
       "\"" \o person_name \o "\" linkedin",
       person_name \o " site:linkedin.com/in" >>
    \o (IF company_name # ""
        THEN << person_name \o " " \o company_name \o " linkedin",
                "\"" \o person_name \o "\" \"" \o company_name \o "\" linkedin" >>
        ELSE <<>>)

\* the three search_url forms of google_search_linkedin
GoogleSearchUrlForms == 3

Init ==
    /\ AuxIdle
    /\ \E q \in Queries : person_name = q[1] /\ company_name = q[2]
    /\ pc = "start"
    /\ manual_result = None
    /\ qi = 0
    /\ ui = 0
    /\ linkedin_urls = <<>>
    /\ duckduckgo_result = None
    /\ di = 0
    /\ pi = 0
    /\ constructed_url = None
    /\ linkedin_url = None
    /\ profile_data = NoProfile
    /\ result = NoProfile
    /\ strategies = <<>>
    /\ origin = "none"
    /\ evaluated = <<>>
    /\ rate_limited = FALSE
    /\ fault_seen = FALSE
    /\ slept = FALSE
    /\ google_reqs = 0
    /\ ddg_reqs = 0
    /\ probes = 0
    /\ probed_ok = None

(* ------------------------------------------------------------------ *)
(* search_linkedin_profile                                              *)
(* ------------------------------------------------------------------ *)

\* return url / return None of search_linkedin_profile
SearchReturn(url, from) ==
    /\ linkedin_url' = url
    /\ origin' = from
    /\ pc' = "search_returned"

\* Method 0: the manual database
CheckManualDatabase ==
    /\ pc = "start"
    /\ strategies' = Append(strategies, "static")
    /\ manual_result' = check_manual_database(person_name, company_name)
    /\ IF Truthy(manual_result')
       THEN /\ SearchReturn(manual_result', "static")
            /\ qi' = qi
       ELSE /\ pc' = "primary"
            /\ qi' = 1
            /\ UNCHANGED <<linkedin_url, origin>>
    /\ UNCHANGED <<aux, person_name, company_name, ui, linkedin_urls, duckduckgo_result, di, pi, constructed_url,
                   profile_data, result, evaluated, rate_limited, fault_seen, slept, google_reqs, ddg_reqs,
                   probes, probed_ok>>

\* entry of google_search_linkedin for search_queries[qi]: the delay before the search_url loop
GoogleSearchStart ==
    /\ pc = "primary"
    /\ qi <= Len(search_queries)
    /\ strategies' = IF qi = 1 THEN Append(strategies, "primary") ELSE strategies
    /\ slept' = TRUE
    /\ ui' = 1
    /\ pc' = "google_get"
    /\ UNCHANGED <<aux, person_name, company_name, manual_result, qi, linkedin_urls, duckduckgo_result, di, pi,
                   constructed_url, linkedin_url, profile_data, result, origin, evaluated, rate_limited,
                   fault_seen, google_reqs, ddg_reqs, probes, probed_ok>>

\* google_search_linkedin returns urls to the search_queries loop of search_linkedin_profile
GoogleSearchReturn(urls) ==
    /\ linkedin_urls' = urls
    /\ ui' = 0
    /\ IF urls # <<>>
       THEN pc' = "validate_candidates" /\ qi' = qi
       ELSE IF qi < Len(search_queries)
            THEN pc' = "primary" /\ qi' = qi + 1
            ELSE pc' = "secondary" /\ qi' = qi

\* the end of one pass of the search_url loop that found nothing
GoogleNextSearchUrl ==
    IF ui < GoogleSearchUrlForms
    THEN /\ ui' = ui + 1
         /\ UNCHANGED <<pc, qi, linkedin_urls>>
    ELSE GoogleSearchReturn(<<>>)

\* google_search_linkedin without its handler: the fault reaches except Exception of
\* search_linkedin_profile, which returns None
GoogleExceptPropagates ==
    /\ linkedin_urls' = <<>>
    /\ ui' = 0
    /\ qi' = qi
    /\ SearchReturn(None, "none")

\* except Exception of google_search_linkedin: return []
GoogleExcept == GoogleSearchReturn(<<>>)

\* requests.get raises (timeout, connection error)
GoogleFault ==
    /\ pc = "google_get"
    /\ google_reqs' = google_reqs + 1
    /\ fault_seen' = TRUE
    /\ slept' = FALSE
    /\ GoogleExcept
    /\ UNCHANGED <<aux, person_name, company_name, manual_result, duckduckgo_result, di, pi, constructed_url,
                   linkedin_url, profile_data, result, strategies, origin, evaluated, rate_limited,
                   ddg_reqs, probes, probed_ok>>

\* status 429: return [] at once
GoogleRateLimited ==
    /\ pc = "google_get"
    /\ google_reqs' = google_reqs + 1
    /\ rate_limited' = TRUE
    /\ slept' = FALSE
    /\ GoogleSearchReturn(<<>>)
    /\ UNCHANGED <<aux, person_name, company_name, manual_result, duckduckgo_result, di, pi, constructed_url,
                   linkedin_url, profile_data, result, strategies, origin, evaluated, fault_seen,
                   ddg_reqs, probes, probed_ok>>

\* a status other than 200 and 429: continue with the next search_url
GoogleBadStatus ==
    /\ pc = "google_get"
    /\ \E status \in HttpStatuses : status # 200 /\ status # 429
    /\ google_reqs' = google_reqs + 1
    /\ slept' = FALSE
    /\ GoogleNextSearchUrl
    /\ UNCHANGED <<aux, person_name, company_name, manual_result, duckduckgo_result, di, pi, constructed_url,
                   linkedin_url, profile_data, result, strategies, origin, evaluated, rate_limited, fault_seen,
                   ddg_reqs, probes, probed_ok>>

\* status 200: extract the URLs; break when some were found, else delay and go on
GoogleOk ==
    /\ pc = "google_get"
    /\ google_reqs' = google_reqs + 1
    /\ \E found_urls \in FoundLists :
         IF found_urls # <<>>
         THEN /\ GoogleSearchReturn(Take(Dedup(found_urls), 5))
              /\ slept' = FALSE
         ELSE /\ GoogleNextSearchUrl
              /\ slept' = TRUE
    /\ UNCHANGED <<aux, person_name, company_name, manual_result, duckduckgo_result, di, pi, constructed_url,
                   linkedin_url, profile_data, result, strategies, origin, evaluated, rate_limited, fault_seen,
                   ddg_reqs, probes, probed_ok>>

\* the loop running over every candidate instead of linkedin_urls[:3]
TopCandidatesAll(urls) == urls

\* linkedin_urls[:3]
TopCandidates(urls) == Take(urls, 3)

\* the positions of the candidates that url_matches_person_name accepts
AcceptedAt(urls, name) == {i \in 1..Len(urls) : url_matches_person_name(urls[i], name)}

\* the fallback returning the last candidate instead of the first
UnvalidatedFallbackLast(urls) == urls[Len(urls)]

\* return linkedin_urls[0] when no candidate of the top three was accepted
UnvalidatedFallback(urls) == urls[1]

\* the for url in linkedin_urls[:3] loop and the return after it
ValidateCandidates ==
    /\ pc = "validate_candidates"
    /\ LET top == TopCandidates(linkedin_urls)
           hits == AcceptedAt(top, person_name)
       IN  IF hits # {}
           THEN /\ evaluated' = SubSeq(top, 1, Min(hits))
                /\ SearchReturn(top[Min(hits)], "primary_validated")
           ELSE /\ evaluated' = top
                /\ SearchReturn(UnvalidatedFallback(linkedin_urls), "primary_unvalidated")
    /\ UNCHANGED <<aux, person_name, company_name, manual_result, qi, ui, linkedin_urls, duckduckgo_result, di, pi,
                   constructed_url, profile_data, result, strategies, rate_limited, fault_seen, slept,
                   google_reqs, ddg_reqs, probes, probed_ok>>

\* Method 2: entry of duckduckgo_search_linkedin
DuckDuckGoStart ==
    /\ pc = "secondary"
    /\ strategies' = Append(strategies, "secondary")
    /\ di' = 1
    /\ pc' = "ddg_sleep"
    /\ UNCHANGED <<aux, person_name, company_name, manual_result, qi, ui, linkedin_urls, duckduckgo_result, pi,
                   constructed_url, linkedin_url, profile_data, result, origin, evaluated, rate_limited,
                   fault_seen, slept, google_reqs, ddg_reqs, probes, probed_ok>>

\* time.sleep(2) before each DuckDuckGo request
DuckDuckGoSleep ==
    /\ pc = "ddg_sleep"
    /\ slept' = TRUE
    /\ pc' = "ddg_get"
    /\ UNCHANGED <<aux, person_name, company_name, manual_result, qi, ui, linkedin_urls, duckduckgo_result, di, pi,
                   constructed_url, linkedin_url, profile_data, result, strategies, origin, evaluated,
                   rate_limited, fault_seen, google_reqs, ddg_reqs, probes, probed_ok>>

\* duckduckgo_search_linkedin returns, and an empty result ends the search without Method 3
DuckDuckGoReturnGivesUp(url) ==
    /\ duckduckgo_result' = url
    /\ di' = 0
    /\ SearchReturn(IF Truthy(url) THEN url ELSE None, IF Truthy(url) THEN "secondary" ELSE "none")

\* duckduckgo_search_linkedin returns url (a URL or None) to search_linkedin_profile
DuckDuckGoReturn(url) ==
    /\ duckduckgo_result' = url
    /\ di' = 0
    /\ IF Truthy(url)
       THEN SearchReturn(url, "secondary")
       ELSE pc' = "construct" /\ UNCHANGED <<linkedin_url, origin>>

\* a pass that found nothing is repeated with the same search_term
DuckDuckGoRetryQuery ==
    /\ di' = di
    /\ pc' = "ddg_sleep"
    /\ UNCHANGED <<duckduckgo_result, linkedin_url, origin>>

\* the end of one pass of the DuckDuckGo loop that found nothing: time.sleep(1), next search_term
DuckDuckGoNextQuery ==
    IF di < Len(ddg_search_queries)
    THEN /\ di' = di + 1
         /\ pc' = "ddg_sleep"
         /\ UNCHANGED <<duckduckgo_result, linkedin_url, origin>>
    ELSE DuckDuckGoReturn(None)

\* except Exception of duckduckgo_search_linkedin: return None
DuckDuckGoExcept == DuckDuckGoReturn(None)

\* requests.get raises (timeout, connection error)
DuckDuckGoFault ==
    /\ pc = "ddg_get"
    /\ ddg_reqs' = ddg_reqs + 1
    /\ fault_seen' = TRUE
    /\ slept' = FALSE
    /\ DuckDuckGoExcept
    /\ UNCHANGED <<aux, person_name, company_name, manual_result, qi, ui, linkedin_urls, pi, constructed_url,
                   profile_data, result, strategies, evaluated, rate_limited, google_reqs, probes,
                   probed_ok>>

\* a status other than 200: delay, next search_term
DuckDuckGoBadStatus ==
    /\ pc = "ddg_get"
    /\ \E status \in HttpStatuses : status # 200
    /\ ddg_reqs' = ddg_reqs + 1
    /\ slept' = TRUE
    /\ DuckDuckGoNextQuery
    /\ UNCHANGED <<aux, person_name, company_name, manual_result, qi, ui, linkedin_urls, pi, constructed_url,
                   profile_data, result, strategies, evaluated, rate_limited, fault_seen, google_reqs,
                   probes, probed_ok>>

\* status 200: the first clean, valid profile URL of the page is returned; none: delay, next search_term
DuckDuckGoOk ==
    /\ pc = "ddg_get"
    /\ ddg_reqs' = ddg_reqs + 1
    /\ \E clean_url \in CandidateUrls \cup {None} :
         IF Truthy(clean_url) /\ validate_linkedin_url(clean_url)
         THEN /\ DuckDuckGoReturn(clean_url)
              /\ slept' = FALSE
         ELSE /\ DuckDuckGoNextQuery
              /\ slept' = TRUE
    /\ UNCHANGED <<aux, person_name, company_name, manual_result, qi, ui, linkedin_urls, pi, constructed_url,
                   profile_data, result, strategies, evaluated, rate_limited, fault_seen, google_reqs,
                   probes, probed_ok>>

\* Method 3: entry of construct_linkedin_url; a name without words returns None at once
ConstructStart ==
    /\ pc = "construct"
    /\ strategies' = Append(strategies, "constructor")
    /\ IF url_patterns(person_name) = <<>>
       THEN /\ constructed_url' = None
            /\ SearchReturn(None, "none")
            /\ pi' = pi
       ELSE /\ pi' = 1
            /\ pc' = "probe_sleep"
            /\ UNCHANGED <<constructed_url, linkedin_url, origin>>
    /\ UNCHANGED <<aux, person_name, company_name, manual_result, qi, ui, linkedin_urls, duckduckgo_result, di,
                   profile_data, result, evaluated, rate_limited, fault_seen, slept, google_reqs, ddg_reqs,
                   probes, probed_ok>>

\* time.sleep(1) of test_linkedin_url, in construct_linkedin_url and in search_linkedin_profile
ProbeSleep ==
    /\ pc \in {"probe_sleep", "retest_sleep"}
    /\ slept' = TRUE
    /\ pc' = IF pc = "probe_sleep" THEN "probe_head" ELSE "retest_head"
    /\ UNCHANGED <<aux, person_name, company_name, manual_result, qi, ui, linkedin_urls, duckduckgo_result, di, pi,
                   constructed_url, linkedin_url, profile_data, result, strategies, origin, evaluated,
                   rate_limited, fault_seen, google_reqs, ddg_reqs, probes, probed_ok>>

\* response.status_code in [200, 302, 301]
ProbeAccepts(status) == status \in {200, 302, 301}

\* test_linkedin_url is True inside construct_linkedin_url: the URL is returned to search_linkedin_profile
ProbeOk ==
    /\ pc = "probe_head"
    /\ \E status \in HttpStatuses : ProbeAccepts(status)
    /\ probes' = probes + 1
    /\ slept' = FALSE
    /\ constructed_url' = ConstructedUrl(url_patterns(person_name)[pi])
    /\ probed_ok' = IF probed_ok = None THEN constructed_url' ELSE probed_ok
    /\ pi' = 0
    /\ pc' = "retest_sleep"
    /\ UNCHANGED <<aux, person_name, company_name, manual_result, qi, ui, linkedin_urls, duckduckgo_result, di,
                   linkedin_url, profile_data, result, strategies, origin, evaluated, rate_limited,
                   fault_seen, google_reqs, ddg_reqs>>

\* test_linkedin_url is False (status not accepted, or requests.head raised): time.sleep(0.5), next pattern
ProbeFail ==
    /\ pc = "probe_head"
    /\ \E fault \in BOOLEAN :
         /\ fault \/ \E status \in HttpStatuses : ~ProbeAccepts(status)
         /\ fault_seen' = (fault_seen \/ fault)
    /\ probes' = probes + 1
    /\ slept' = TRUE
    /\ IF pi < Len(url_patterns(person_name))
       THEN /\ pi' = pi + 1
            /\ pc' = "probe_sleep"
            /\ UNCHANGED <<constructed_url, linkedin_url, origin>>
       ELSE /\ pi' = 0
            /\ constructed_url' = None
            /\ SearchReturn(None, "none")
    /\ UNCHANGED <<aux, person_name, company_name, manual_result, qi, ui, linkedin_urls, duckduckgo_result, di,
                   profile_data, result, strategies, evaluated, rate_limited, google_reqs, ddg_reqs,
                   probed_ok>>

\* the second test_linkedin_url, of search_linkedin_profile on the constructed URL, is True
RetestOk ==
    /\ pc = "retest_head"
    /\ \E status \in HttpStatuses : ProbeAccepts(status)
    /\ probes' = probes + 1
    /\ slept' = FALSE
    /\ SearchReturn(constructed_url, "constructed")
    /\ UNCHANGED <<aux, person_name, company_name, manual_result, qi, ui, linkedin_urls, duckduckgo_result, di, pi,
                   constructed_url, profile_data, result, strategies, evaluated, rate_limited, fault_seen,
                   google_reqs, ddg_reqs, probed_ok>>

\* the second test_linkedin_url is False: search_linkedin_profile returns None
RetestFail ==
    /\ pc = "retest_head"
    /\ \E fault \in BOOLEAN :
         /\ fault \/ \E status \in HttpStatuses : ~ProbeAccepts(status)
         /\ fault_seen' = (fault_seen \/ fault)
    /\ probes' = probes + 1
    /\ slept' = FALSE
    /\ SearchReturn(None, "none")
    /\ UNCHANGED <<aux, person_name, company_name, manual_result, qi, ui, linkedin_urls, duckduckgo_result, di, pi,
                   constructed_url, profile_data, result, strategies, evaluated, rate_limited,
                   google_reqs, ddg_reqs, probed_ok>>

(* ------------------------------------------------------------------ *)
(* scrape_profile_by_name after search_linkedin_profile returned        *)
(* ------------------------------------------------------------------ *)

\* the frame of search_linkedin_profile is gone, and the history of that call with it
FrameDropped ==
    /\ manual_result' = None
    /\ qi' = 0
    /\ ui' = 0
    /\ linkedin_urls' = <<>>
    /\ duckduckgo_result' = None
    /\ di' = 0
    /\ pi' = 0
    /\ constructed_url' = None
    /\ evaluated' = <<>>
    /\ strategies' = <<>>
    /\ rate_limited' = FALSE
    /\ fault_seen' = FALSE
    /\ slept' = FALSE
    /\ google_reqs' = 0
    /\ ddg_reqs' = 0
    /\ probes' = 0
    /\ probed_ok' = None

\* if not linkedin_url: return None
ScrapeNotFound ==
    /\ pc = "search_returned"
    /\ ~Truthy(linkedin_url)
    /\ FrameDropped
    /\ result' = NoProfile
    /\ pc' = "done"
    /\ UNCHANGED <<aux, person_name, company_name, linkedin_url, profile_data, origin>>

\* scrape_profile: status 999, or 200 with no name on the page: mock data
ScrapeProfileMock ==
    /\ pc = "search_returned"
    /\ Truthy(linkedin_url)
    /\ validate_linkedin_url(linkedin_url)
    /\ FrameDropped
    /\ profile_data' = create_mock_profile_data(linkedin_url)
    /\ pc' = "scraped"
    /\ UNCHANGED <<aux, person_name, company_name, linkedin_url, result, origin>>

\* scrape_profile: 429, another status, a timeout or a network error (or an invalid URL): None
ScrapeProfileFailed ==
    /\ pc = "search_returned"
    /\ Truthy(linkedin_url)
    /\ FrameDropped
    /\ profile_data' = NoProfile
    /\ pc' = "scraped"
    /\ UNCHANGED <<aux, person_name, company_name, linkedin_url, result, origin>>

\* scrape_profile: status 200 and a name extracted from the page
ScrapeProfileOk ==
    /\ pc = "search_returned"
    /\ Truthy(linkedin_url)
    /\ validate_linkedin_url(linkedin_url)
    /\ FrameDropped
    /\ \E name \in ProfileNames \ {""}, company \in ProfileCompanies :
         profile_data' = Profile(name, company, linkedin_url)
    /\ pc' = "scraped"
    /\ UNCHANGED <<aux, person_name, company_name, linkedin_url, result, origin>>

\* if profile_data: return it when validate_profile_match accepts it, else None
ValidateProfileMatch ==
    /\ pc = "scraped"
    /\ result' = IF profile_data # NoProfile /\ validate_profile_match(profile_data, person_name, company_name)
                 THEN profile_data
                 ELSE NoProfile
    /\ pc' = "done"
    /\ UNCHANGED <<aux, person_name, company_name, manual_result, qi, ui, linkedin_urls, duckduckgo_result, di, pi,
                   constructed_url, linkedin_url, profile_data, strategies, origin, evaluated, rate_limited,
                   fault_seen, slept, google_reqs, ddg_reqs, probes, probed_ok>>

Next ==
    \/ CheckManualDatabase
    \/ GoogleSearchStart
    \/ GoogleFault
    \/ GoogleRateLimited
    \/ GoogleBadStatus
    \/ GoogleOk
    \/ ValidateCandidates
    \/ DuckDuckGoStart
    \/ DuckDuckGoSleep
    \/ DuckDuckGoFault
    \/ DuckDuckGoBadStatus
    \/ DuckDuckGoOk
    \/ ConstructStart
    \/ ProbeSleep
    \/ ProbeOk
    \/ ProbeFail
    \/ RetestOk
    \/ RetestFail
    \/ ScrapeNotFound
    \/ ScrapeProfileMock
    \/ ScrapeProfileFailed
    \/ ScrapeProfileOk
    \/ ValidateProfileMatch

Spec == Init /\ [][Next]_vars

(* ------------------------------------------------------------------ *)
(* Properties                                                           *)
(* ------------------------------------------------------------------ *)

\* the call of search_linkedin_profile is running or has just returned
InSearch == pc \notin {"scraped", "done"}

Returned == pc = "search_returned"

name_lower == Strip(Lower(person_name))

company_lower == Strip(Lower(company_name))

\* the external requests issued so far by the call
Requests == google_reqs + ddg_reqs + probes

StrategyOrder == <<"static", "primary", "secondary", "constructor">>

Matches(url) == url_matches_person_name(url, person_name)

\* C1: a query whose lower-cased, trimmed (name, organization) pair is an exact key of the
\* Static Table issues no external request at any point of the call, and the call returns
\* the identifier stored under that key.
C1_StaticHitNoRequests ==
    (InSearch /\ DbIndex(name_lower, company_lower) # 0)
        => /\ Requests = 0
           /\ Returned => linkedin_url = manual_database[DbIndex(name_lower, company_lower)][3]

C1_Witness ==
    /\ Returned
    /\ DbIndex(name_lower, company_lower) # 0
    /\ linkedin_url = manual_database[DbIndex(name_lower, company_lower)][3]
    /\ strategies = <<"static">>

\* C2: the strategies are invoked in the order Static Table, primary search, secondary
\* search, URL Constructor, each only after every earlier one produced nothing, and None
\* is returned only after all four were invoked.
C2_StrictOrder ==
    InSearch
        => /\ \E n \in 0..4 : strategies = SubSeq(StrategyOrder, 1, n)
           /\ Len(strategies) >= 2 => ~Truthy(manual_result)
           /\ Len(strategies) >= 3 => linkedin_urls = <<>>
           /\ Len(strategies) >= 4 => ~Truthy(duckduckgo_result)
           /\ (Returned /\ ~Truthy(linkedin_url)) => strategies = StrategyOrder

C2_Witness ==
    /\ Returned
    /\ linkedin_url = None
    /\ strategies = StrategyOrder
    /\ google_reqs > 0
    /\ ddg_reqs > 0
    /\ probes > 0

\* C3: once the primary backend answered 429 in a call, the call sends it no further request.
C3_NoRequestAfterRateLimit == [][rate_limited => google_reqs' <= google_reqs]_vars

\* C4 (as claimed): every identifier returned came from the Static Table or was accepted by
\* url_matches_person_name during the call.
C4_OnlyStaticOrAccepted ==
    (Returned /\ Truthy(linkedin_url))
        => \/ linkedin_url = manual_result
           \/ InSeq(linkedin_url, evaluated) /\ Matches(linkedin_url)

\* C4 (amended): every identifier returned came from the Static Table, or was accepted by
\* url_matches_person_name, or is the first primary candidate after the Matcher rejected
\* each of the top three, or is the URL the secondary search found, or is a constructed
\* URL whose existence probe succeeded.
C4_ReturnedOrigins ==
    (Returned /\ Truthy(linkedin_url))
        => \/ linkedin_url = manual_result
           \/ InSeq(linkedin_url, evaluated) /\ Matches(linkedin_url)
           \/ /\ linkedin_urls # <<>>
              /\ linkedin_url = linkedin_urls[1]
              /\ evaluated = SubSeq(linkedin_urls, 1, IF Len(linkedin_urls) < 3 THEN Len(linkedin_urls) ELSE 3)
              /\ \A i \in 1..Len(evaluated) : ~Matches(evaluated[i])
           \/ linkedin_url = duckduckgo_result
           \/ linkedin_url = constructed_url /\ constructed_url = probed_ok

C4_Witness ==
    /\ Returned
    /\ Len(linkedin_urls) >= 2
    /\ linkedin_url = linkedin_urls[1]
    /\ \A i \in 1..Len(evaluated) : ~Matches(evaluated[i])

\* C5: a profile fetched for an identifier that came from the Static Table is returned by
\* scrape_profile_by_name, never discarded by validate_profile_match.
C5_StaticTrusted ==
    (pc = "done" /\ origin = "static" /\ profile_data # NoProfile) => result = profile_data

\* C6: of a non-empty primary candidate list only the first three are passed to the Matcher,
\* in discovery order; the earliest accepted one is returned and nothing after it is
\* evaluated; with none accepted the first one is returned; a candidate at position four or
\* later is never returned, and no later strategy has run.
C6_TopThreeFirstAcceptedWins ==
    (Returned /\ linkedin_urls # <<>>)
        => /\ Len(evaluated) \in 1..3
           /\ Len(evaluated) <= Len(linkedin_urls)
           /\ evaluated = SubSeq(linkedin_urls, 1, Len(evaluated))
           /\ \A i \in 1..(Len(evaluated) - 1) : ~Matches(evaluated[i])
           /\ IF Matches(evaluated[Len(evaluated)])
              THEN linkedin_url = evaluated[Len(evaluated)]
              ELSE /\ Len(evaluated) = (IF Len(linkedin_urls) < 3 THEN Len(linkedin_urls) ELSE 3)
                   /\ linkedin_url = linkedin_urls[1]
           /\ \E i \in 1..3 : i <= Len(linkedin_urls) /\ linkedin_url = linkedin_urls[i]
           /\ strategies = <<"static", "primary">>
           /\ ddg_reqs = 0 /\ probes = 0

C6_Witness ==
    /\ Returned
    /\ Len(linkedin_urls) = 4
    /\ Matches(linkedin_urls[4])
    /\ \A i \in 1..3 : ~Matches(linkedin_urls[i])
    /\ linkedin_url = linkedin_urls[1]

\* C7: when the Matcher rejected each of the top three primary candidates, the first
\* candidate is returned and the outcome surfaced to the caller says that it is unvalidated.
C7_UnvalidatedFlagged ==
    (Returned /\ origin = "primary_unvalidated")
        => /\ linkedin_url = linkedin_urls[1]
           /\ search_linkedin_profile_only(linkedin_url).search_method = "unvalidated"

\* C8: once the existence probe of a constructed URL succeeded, the call returns that URL.
C8_FirstProbeWins ==
    (Returned /\ probed_ok # None) => linkedin_url = probed_ok

\* C9: after a fault of an external call the strategy counts as having produced nothing:
\* the call goes on, and it returns None only after every later strategy was invoked too.
C9_FaultIsProducedNothing ==
    (InSearch /\ fault_seen)
        => /\ pc \in {"primary", "google_get", "validate_candidates", "secondary", "ddg_sleep", "ddg_get",
                      "construct", "probe_sleep", "probe_head", "retest_sleep", "retest_head", "search_returned"}
           /\ (Returned /\ ~Truthy(linkedin_url)) => strategies = StrategyOrder

C9_Witness ==
    /\ Returned
    /\ fault_seen
    /\ google_reqs > 0
    /\ ddg_reqs = 1
    /\ probes > 0
    /\ linkedin_url = None
    /\ strategies = StrategyOrder

\* C10: every external request of the call is issued after a delay: none follows the
\* previous request without a time.sleep in between.
C10_DelayBeforeEveryRequest == [][(InSearch /\ Requests' > Requests) => slept]_vars

(* ------------------------------------------------------------------ *)
(* validate_profile_match on its own                                    *)
(* ------------------------------------------------------------------ *)

\* searched_name, searched_company of validate_profile_match
MatcherQueries ==
    { <<"Acme Corp", "Acme Corp">>, <<"Jane Doe", "Acme Corp">>, <<"Jane Doe", "">>,
      <<"J Doe", "Globex">>, <<"", "Acme Corp">> }

\* profile_data['name'] of validate_profile_match
MatcherProfileNames == {"Acme Corp Official", "Jane Doe", "Jane Q. Doe", "John Doe", "Official"}

\* profile_data['company'] of validate_profile_match
MatcherProfileCompanies == {"Acme Corp", "Globex", ""}

\* scrape_profile_by_name at the point where scrape_profile has returned a profile
MatcherInit ==
    /\ AuxIdle
    /\ \E q \in MatcherQueries : person_name = q[1] /\ company_name = q[2]
    /\ pc = "scraped"
    /\ manual_result = None
    /\ qi = 0
    /\ ui = 0
    /\ linkedin_urls = <<>>
    /\ duckduckgo_result = None
    /\ di = 0
    /\ pi = 0
    /\ constructed_url = None
    /\ linkedin_url = "https://www.linkedin.com/in/acme-corp/"
    /\ \E name \in MatcherProfileNames, company \in MatcherProfileCompanies :
          profile_data = Profile(name, company, linkedin_url)
    /\ result = NoProfile
    /\ strategies = <<>>
    /\ origin = "primary_unvalidated"
    /\ evaluated = <<>>
    /\ rate_limited = FALSE
    /\ fault_seen = FALSE
    /\ slept = FALSE
    /\ google_reqs = 0
    /\ ddg_reqs = 0
    /\ probes = 0
    /\ probed_ok = None

MatcherNext ==
    \/ ValidateProfileMatch

SpecMatcher == MatcherInit /\ [][MatcherNext]_vars

\* the candidate of the scenario: known name "Acme Corp Official", organization "Acme Corp"
BrandCandidate == profile_data.name = "Acme Corp Official" /\ profile_data.company = "Acme Corp"

\* C11 (as stated): the candidate "Acme Corp Official" / "Acme Corp" is rejected for the query
\* person "Acme Corp" with organization "Acme Corp"
C11_BrandAccountRejected ==
    (pc = "done" /\ BrandCandidate /\ person_name = "Acme Corp" /\ company_name = "Acme Corp")
        => result = NoProfile

\* C11 (amended): for the query person "Acme Corp" the candidate "Acme Corp Official" / "Acme Corp"
\* is accepted, because both query words are among the candidate's name words; the same
\* candidate is rejected for a query whose name fails the name rules ("Jane Doe", "Acme Corp")
C11_WordOverlapDecidesFirst ==
    /\ (pc = "done" /\ BrandCandidate /\ person_name = "Acme Corp" /\ company_name = "Acme Corp")
          => result = profile_data
    /\ (pc = "done" /\ BrandCandidate /\ person_name = "Jane Doe" /\ company_name = "Acme Corp")
          => result = NoProfile

C11_Witness ==
    /\ pc = "done"
    /\ BrandCandidate
    /\ person_name = "Acme Corp"
    /\ company_name = "Acme Corp"
    /\ result = profile_data

(* ------------------------------------------------------------------ *)
(* Lookups in the nickname tables                                       *)
(* ------------------------------------------------------------------ *)

MaxLookups == 2

\* the nickname_map literal of construct_linkedin_url or of url_matches_person_name
NicknameTable(which) == IF which = "construct" THEN construct_nickname_map ELSE matcher_nickname_map

\* the given names and nicknames a table mentions, and one it does not
TableWords(which) ==
    {NicknameTable(which)[i][1] : i \in 1..Len(NicknameTable(which))}
        \cup {NicknameTable(which)[i][2] : i \in 1..Len(NicknameTable(which))}
        \cup {"zed"}

\* nickname_map[word] if word in nickname_map
NicknameOf(which, w) == IF DictHas(NicknameTable(which), w) THEN DictGet(NicknameTable(which), w) ELSE None

TablesInit ==
    /\ OutsideTableIdle
    /\ nickname_map \in {"construct", "matcher"}
    /\ word \in TableWords(nickname_map)
    /\ nickname = <<>>

\* if word in nickname_map: ... nickname_map[word], first for word, then for the token it gave
NicknameLookup ==
    /\ nickname_map # "none"
    /\ Len(nickname) < MaxLookups
    /\ LET w == IF nickname = <<>> THEN word ELSE Last(nickname)
       IN  /\ w # None
           /\ nickname' = Append(nickname, NicknameOf(nickname_map, w))
    /\ UNCHANGED <<outside_table, nickname_map, word>>

TablesNext ==
    \/ NicknameLookup

SpecTables == TablesInit /\ [][TablesNext]_vars

\* C12: if looking up a yields b, then looking up b yields a
C12_LookupSymmetric ==
    (Len(nickname) >= 2 /\ nickname[1] # None) => nickname[2] = word

(* ------------------------------------------------------------------ *)
(* _clean_linkedin_url                                                  *)
(* ------------------------------------------------------------------ *)

MaxCleanings == 2

RECURSIVE ReplaceStr(_, _, _)
\* s.replace(old, new) for a non-empty old
ReplaceStr(s, old, new) == LET at == Find(old, s)
                           IN  IF at = 0 THEN s
                               ELSE SubSeq(s, 1, at - 1) \o new \o ReplaceStr(SubSeq(s, at + Len(old), Len(s)), old, new)

\* the %XX escapes of the characters that occur in the URLs below, as urllib.parse.unquote decodes them
PercentCodes ==
    << <<"20", " ">>, <<"22", "\"">>, <<"25", "%">>, <<"26", "&">>, <<"2B", "+">>, <<"2F", "/">>,
       <<"3A", ":">>, <<"3D", "=">>, <<"3F", "?">>, <<"41", "A">> >>

\* the two hex digits after a %, in upper case
HexPair(s, i) == UpperChar(Char(s, i + 1)) \o UpperChar(Char(s, i + 2))

RECURSIVE UnquoteFrom(_, _)
UnquoteFrom(s, i) ==
    IF i > Len(s) THEN ""
    ELSE IF Char(s, i) = "%" /\ i + 2 <= Len(s) /\ DictHas(PercentCodes, HexPair(s, i))
         THEN DictGet(PercentCodes, HexPair(s, i)) \o UnquoteFrom(s, i + 3)
         ELSE Char(s, i) \o UnquoteFrom(s, i + 1)

\* urllib.parse.unquote(url): one pass of percent-decoding
Unquote(s) == UnquoteFrom(s, 1)

\* the replace chain after unquote
RemoveArtifacts(s) ==
    LET a == ReplaceStr(ReplaceStr(ReplaceStr(s, "%3F", "?"), "%3D", "="), "%26", "&")
    IN  ReplaceStr(ReplaceStr(ReplaceStr(a, "%22", ""), "+", ""), "\"", "")

\* the characters that end the username
UsernameEnds == <<"/", "?", "&", "#", " ", "\"", "+">>

RECURSIVE ProfileEnd(_, _, _, _)
\* the loop over the ending characters: the smallest position found, else the end of the string
ProfileEnd(s, profile_start, k, profile_end) ==
    IF k > Len(UsernameEnds) THEN profile_end
    ELSE LET pos == IF profile_start > Len(s) THEN 0 ELSE FindFrom(UsernameEnds[k], s, profile_start)
         IN  ProfileEnd(s, profile_start, k + 1, IF pos # 0 /\ pos < profile_end THEN pos ELSE profile_end)

\* username with every character kept
CleanUsernameKeepsAll(username) == username

\* ''.join(c for c in username if c.isalnum() or c in ['-', '_'])
CleanUsername(username) == KeepChars(username, "-_")

\* LinkedInScraper._clean_linkedin_url
_clean_linkedin_url(url) ==
    IF ~Truthy(url) THEN None
    ELSE LET u == RemoveArtifacts(Unquote(url))
             start == Find("linkedin.com/in/", u)
             profile_start == FindFrom("/in/", u, start) + 4
             profile_end == ProfileEnd(u, profile_start, 1, Len(u) + 1)
             raw == SubSeq(u, profile_start, profile_end - 1)
             username == CleanUsername(raw)
         IN  IF start = 0 THEN None
             ELSE IF raw = "" THEN None
             ELSE IF /\ username # ""
                     /\ ~StartsWith(username, "?")
                     /\ ~StartsWith(username, "+")
                     /\ ~StartsWith(username, "%")
                     /\ Len(username) >= 2
                  THEN "https://www.linkedin.com/in/" \o username \o "/"
             ELSE None

\* what comes before the username in the hrefs and text matches handed to _clean_linkedin_url
UrlPrefixes ==
    { "https://www.linkedin.com/in/", "https://linkedin.com/in/", "/url?q=https://linkedin.com/in/",
      "https%3A%2F%2Flinkedin.com%2Fin%2F", "https://example.com/in/" }

\* the username part, as found in a page
UrlUsernames ==
    { "satyanadella", "tim-cook-1b4ee", "+%22BTS%22", "test%20user", "user+name", "%22quoted%22",
      "j_doe.x", "a%2541b", "%2541b", "a", "" }

\* what follows the username
UrlSuffixes == { "", "/", "?utm_source=test", "&sa=U", "%3Ftrk%3Dx" }

\* the url argument of _clean_linkedin_url
TestUrls == {p \o u \o x : p \in UrlPrefixes, u \in UrlUsernames, x \in UrlSuffixes} \cup {""}

CleanInit ==
    /\ OutsideCleanIdle
    /\ test_url \in TestUrls
    /\ cleaned = <<>>

\* cleaned = scraper._clean_linkedin_url(test_url), then again on the value it returned
CleanLinkedinUrl ==
    /\ test_url # None
    /\ Len(cleaned) < MaxCleanings
    /\ cleaned' = Append(cleaned, _clean_linkedin_url(IF cleaned = <<>> THEN test_url ELSE Last(cleaned)))
    /\ UNCHANGED <<outside_clean, test_url>>

CleanNext ==
    \/ CleanLinkedinUrl

SpecClean == CleanInit /\ [][CleanNext]_vars

\* C13: _clean_linkedin_url(_clean_linkedin_url(x)) = _clean_linkedin_url(x): an accepted input
\* maps to a URL that cleans to itself, a rejected input stays rejected
C13_CleanIdempotent ==
    Len(cleaned) >= 2 => cleaned[2] = cleaned[1]

C13_Witness ==
    /\ test_url = "https://www.linkedin.com/in/+%22BTS%22/"
    /\ cleaned = <<"https://www.linkedin.com/in/BTS/", "https://www.linkedin.com/in/BTS/">>

(* ------------------------------------------------------------------ *)
(* NewsCollector                                                        *)
(* ------------------------------------------------------------------ *)

MaxArticles == 6

\* MAX_NEWS_ARTICLES of config.py
MAX_NEWS_ARTICLES == 5

\* the relevance a processed article needs to be kept
RelevanceThreshold == 10

\* a key the JSON object does not have
Missing == "<Missing>"

\* d.get(key, ''): the default stands in for a missing key only, a null stays None
GetOrEmpty(v) == IF v = Missing THEN "" ELSE v

\* not v, for a string or None
Falsy(v) == v = None \/ v = ""

\* f"{v}": None is formatted as the text None
Format(v) == IF v = None THEN "None" ELSE v

\* the value of a decimal digit
DigitVal(c) == IndexIn(c, Digits) - 1

AllDigits(s) == \A i \in 1..Len(s) : CharIn(Char(s, i), Digits)

RECURSIVE ToInt(_)
\* int(s) for a string of decimal digits
ToInt(s) == IF s = "" THEN 0 ELSE 10 * ToInt(SubSeq(s, 1, Len(s) - 1)) + DigitVal(Char(s, Len(s)))

IsLeap(y) == (y % 4 = 0 /\ y % 100 # 0) \/ y % 400 = 0

DaysInMonth(y, m) == IF m = 2 THEN (IF IsLeap(y) THEN 29 ELSE 28)
                     ELSE IF m \in {4, 6, 9, 11} THEN 30 ELSE 31

\* the day number of a date of the proleptic Gregorian calendar
DayNumber(y, m, d) ==
    LET yy == IF m <= 2 THEN y - 1 ELSE y
        era == yy \div 400
        yoe == yy - era * 400
        mp == IF m > 2 THEN m - 3 ELSE m + 9
        doy == (153 * mp + 2) \div 5 + d - 1
        doe == yoe * 365 + yoe \div 4 - yoe \div 100 + doy
    IN  era * 146097 + doe

\* published_at[:10] has the shape YYYY-MM-DD and names a date
DateParses(published_at) ==
    /\ published_at # None
    /\ Len(published_at) >= 10
    /\ AllDigits(SubSeq(published_at, 1, 4))
    /\ Char(published_at, 5) = "-"
    /\ AllDigits(SubSeq(published_at, 6, 7))
    /\ Char(published_at, 8) = "-"
    /\ AllDigits(SubSeq(published_at, 9, 10))
    /\ ToInt(SubSeq(published_at, 1, 4)) >= 1
    /\ ToInt(SubSeq(published_at, 6, 7)) \in 1..12
    /\ ToInt(SubSeq(published_at, 9, 10)) \in
           1..DaysInMonth(ToInt(SubSeq(published_at, 1, 4)), ToInt(SubSeq(published_at, 6, 7)))

\* datetime.strptime(published_at[:10], '%Y-%m-%d') as a day number
ParseDate(published_at) ==
    DayNumber(ToInt(SubSeq(published_at, 1, 4)), ToInt(SubSeq(published_at, 6, 7)),
              ToInt(SubSeq(published_at, 9, 10)))

\* the date of datetime.now()
Now == "2024-03-01"

\* max(0, 20 - days_ago), or nothing when the date does not parse
RecencyScore(published_at) ==
    IF DateParses(published_at)
    THEN LET days_ago == ParseDate(Now) - ParseDate(published_at)
         IN  IF 20 - days_ago > 0 THEN 20 - days_ago ELSE 0
    ELSE 0

credible_sources ==
    << "reuters", "bloomberg", "wall street journal", "financial times", "techcrunch", "forbes",
       "business insider", "cnbc", "bbc", "associated press", "axios", "politico" >>

business_keywords ==
    << "ceo", "executive", "company", "business", "announces", "appointed", "leadership", "interview",
       "strategy", "investment", "funding", "merger", "acquisition", "partnership", "conference",
       "speaking" >>

negative_keywords == << "sports", "entertainment", "celebrity", "gossip" >>

\* the positions of the keywords of a list that occur in the content
Hits(keywords, content) == {i \in 1..Len(keywords) : Contains(keywords[i], content)}

\* content of calculate_relevance_score
ContentOf(article) == Lower(article.title \o " " \o Format(article.description))

PersonScore(article, person) == IF Contains(Lower(person), ContentOf(article)) THEN 30 ELSE 0

CompanyScore(article, company) ==
    IF company # "" /\ Contains(Lower(company), ContentOf(article)) THEN 20 ELSE 0

\* article['source'].lower() raises for a source that is None
ScoreRaises(article) == article.source = None

SourceScore(article) == IF Hits(credible_sources, Lower(article.source)) # {} THEN 10 ELSE 0

\* the score before the final max(0, score)
RawScore(article, person, company) ==
    PersonScore(article, person) + CompanyScore(article, company) + RecencyScore(article.published_at)
        + SourceScore(article) + 2 * Cardinality(Hits(business_keywords, ContentOf(article)))
        - 5 * Cardinality(Hits(negative_keywords, ContentOf(article)))

\* the score returned as it is
NoFloor(score) == score

\* max(0, score)
NonNegative(score) == IF score > 0 THEN score ELSE 0

\* NewsCollector.calculate_relevance_score, for an article it does not raise on
calculate_relevance_score(article, person, company) == NonNegative(RawScore(article, person, company))

\* the source object of an article of the response: an object with a name, an object with a
\* null name, an object with no name, null, or no source key
SourceName(source) ==
    IF source.kind = "object" THEN GetOrEmpty(source.name) ELSE ""

\* article.get('source', {}).get('name', '') raises for a source that is null
SourceRaises(source) == source.kind = "null"

\* processed_article of process_articles, before the score is added
ProcessedArticle(article) ==
    [ title |-> GetOrEmpty(article.title),
      description |-> GetOrEmpty(article.description),
      url |-> GetOrEmpty(article.url),
      published_at |-> GetOrEmpty(article.publishedAt),
      source |-> SourceName(article.source) ]

\* what one pass of the loop of process_articles does with an article
Outcome(article, person, company) ==
    IF SourceRaises(article.source) THEN "error"
    ELSE IF Falsy(ProcessedArticle(article).title) \/ Falsy(ProcessedArticle(article).url) THEN "skipped"
    ELSE IF ScoreRaises(ProcessedArticle(article)) THEN "error"
    ELSE "scored"

\* relevance_score of an article that was scored
RelevanceOf(article, person, company) ==
    calculate_relevance_score(ProcessedArticle(article), person, company)

RECURSIVE InsertByScore(_, _)
\* the place of x in a list in descending score order, behind the items of equal score
InsertByScore(sorted, x) ==
    IF sorted = <<>> THEN <<x>>
    ELSE IF Head(sorted).relevance_score >= x.relevance_score
         THEN <<Head(sorted)>> \o InsertByScore(Tail(sorted), x)
         ELSE <<x>> \o sorted

RECURSIVE Reverse(_)
Reverse(seq) == IF seq = <<>> THEN <<>> ELSE Reverse(Tail(seq)) \o <<Head(seq)>>

RECURSIVE SortAscending(_)
\* list.sort(key=...): stable, ascending
SortAscending(seq) ==
    IF seq = <<>> THEN <<>>
    ELSE LET rest == SortAscending(SubSeq(seq, 1, Len(seq) - 1))
             x == Last(seq)
             before == {i \in 1..Len(rest) : rest[i].relevance_score <= x.relevance_score}
             k == Cardinality(before)
         IN  SubSeq(rest, 1, k) \o <<x>> \o SubSeq(rest, k + 1, Len(rest))

\* sort ascending, then reverse the list: items of equal score end in reverse order
SortThenReverse(seq) == Reverse(SortAscending(seq))

RECURSIVE SortDescending(_)
\* list.sort(key=lambda x: x['relevance_score'], reverse=True): stable, descending
SortDescending(seq) ==
    IF seq = <<>> THEN <<>>
    ELSE InsertByScore(SortDescending(SubSeq(seq, 1, Len(seq) - 1)), Last(seq))

\* person_name, company_name of search_person_news
NewsQueries == { <<"Jane Doe", "Acme Corp">>, <<"Jane Doe", "">> }

\* an article of the News API response
Article(title, description, url, publishedAt, source) ==
    [title |-> title, description |-> description, url |-> url, publishedAt |-> publishedAt, source |-> source]

\* "source": {"id": ..., "name": name}; the name may be null or missing
SourceObject(name) == [kind |-> "object", name |-> name]

\* "source": null
SourceNull == [kind |-> "null", name |-> Missing]

\* no "source" key
SourceAbsent == [kind |-> "absent", name |-> Missing]

ArticleTitles ==
    { "Acme announces new CEO", "Acme announces new", "Acme new", "Acme Corp strategy",
      "Sports gossip celebrity entertainment", "Celebrity gossip: Acme announces", "", None }

ArticleDescriptions == { "", "Jane Doe", "Acme Corp", None }

ArticleDates == { "2024-03-01T08:15:00Z", "2024-02-29T23:59:00Z", "soon", None }

ArticleSources == { SourceObject("Reuters"), SourceObject("Daily Blog"), SourceObject(None) }

\* an article with nothing missing, published on the day of Now
BaseArticle ==
    Article("Acme announces new CEO", "", "https://news.example/a", "2024-03-01T08:15:00Z", SourceObject("Reuters"))

\* the articles a response is made of: the fields varied against each other, and BaseArticle
\* with one field missing, null or malformed
ScoringArticles ==
    { Article(t, d, "https://news.example/a", p, s) :
        t \in ArticleTitles, d \in ArticleDescriptions, p \in ArticleDates, s \in ArticleSources }
    \cup { [BaseArticle EXCEPT !.url = u] : u \in {"", None, Missing} }
    \cup { [BaseArticle EXCEPT !.title = Missing], [BaseArticle EXCEPT !.description = Missing] }
    \cup { [BaseArticle EXCEPT !.publishedAt = p] :
              p \in {"2024-02-10T00:00:00Z", "2024-03-02T01:00:00Z", "2024-02-30T00:00:00Z", "", Missing} }
    \cup { [BaseArticle EXCEPT !.source = x] : x \in {SourceObject(Missing), SourceObject(""), SourceNull, SourceAbsent} }

\* a response whose articles differ in score, with two of equal score and one below the threshold
RankingArticles ==
    { Article("Jane Doe named Acme Corp CEO", "", "https://news.example/1", "2024-03-01T08:15:00Z", SourceObject("Reuters")),
      Article("Acme Corp strategy", "", "https://news.example/2", "2024-02-01T00:00:00Z", SourceObject("Daily Blog")),
      Article("Acme Corp funding", "", "https://news.example/3", "2024-02-01T00:00:00Z", SourceObject("Daily Blog")),
      Article("Acme new", "", "https://news.example/4", "2024-02-01T00:00:00Z", SourceObject("Daily Blog")) }

MaxCompared == 2

\* titles that differ in the business keywords they carry, without and with negative keywords
KeywordTitles ==
    { "Acme Corp update",
      "Acme Corp strategy update",
      "Acme Corp strategy funding update",
      "Acme Corp strategy funding merger update",
      "Acme Corp gossip update",
      "Acme Corp gossip strategy update",
      "Acme Corp gossip strategy funding merger update" }

\* articles that are equal but for the business keywords of the title
KeywordArticles ==
    { Article(t, "", "https://news.example/k", "2024-02-01T00:00:00Z", SourceObject("Daily Blog")) : t \in KeywordTitles }

\* the articles of the small responses
CachedArticles == RankingArticles \cup KeywordArticles

\* processed_article with its relevance_score
WithScore(pa, score) ==
    [title |-> pa.title, description |-> pa.description, url |-> pa.url, published_at |-> pa.published_at,
     source |-> pa.source, relevance_score |-> score]

NewsInit ==
    /\ OutsideNewsIdle
    /\ \E q \in NewsQueries : news_person = q[1] /\ news_company = q[2]
    /\ news_pc = "fetch"
    /\ processed = <<>>
    /\ outcomes = <<>>
    /\ final_articles = <<>>

\* search_person_news returns [] before any article is processed: no API key, status 429, 401 or
\* another one, a body whose status is not ok, no articles, or an exception of the request
NewsUnavailable ==
    /\ news_pc = "fetch"
    /\ final_articles' = <<>>
    /\ news_pc' = "returned"
    /\ UNCHANGED <<outside_news, news_person, news_company, processed, outcomes>>

\* the response carries articles: process_articles starts
NewsFetched ==
    /\ news_pc = "fetch"
    /\ news_pc' = "process"
    /\ UNCHANGED <<outside_news, news_person, news_company, processed, outcomes, final_articles>>

\* what one pass of the loop of process_articles finds for an article: what became of it, and
\* its relevance_score when it was scored
Processing(article, person, company) ==
    [ outcome |-> Outcome(article, person, company),
      relevance_score |-> IF Outcome(article, person, company) = "scored"
                          THEN RelevanceOf(article, person, company)
                          ELSE -1 ]

\* Processing for the articles of the small responses, computed once
ProcessingTable ==
    [ article \in CachedArticles, q \in NewsQueries |-> Processing(article, q[1], q[2]) ]

\* the entry of ProcessingTable for an article and a query
Processed(article, person, company) ==
    ProcessingTable[article, <<person, company>>]

\* one pass of the loop of process_articles over an article of the response
ProcessArticleFrom(feed, limit) ==
    /\ news_pc = "process"
    /\ Len(outcomes) < limit
    /\ \E article \in feed :
         LET p == IF article \in CachedArticles
                  THEN Processed(article, news_person, news_company)
                  ELSE Processing(article, news_person, news_company)
         IN  /\ outcomes' = Append(outcomes, [article |-> article, outcome |-> p.outcome,
                                              relevance_score |-> p.relevance_score])
             /\ processed' = IF p.outcome = "scored" /\ p.relevance_score >= RelevanceThreshold
                             THEN Append(processed, WithScore(ProcessedArticle(article), p.relevance_score))
                             ELSE processed
    /\ UNCHANGED <<outside_news, news_person, news_company, news_pc, final_articles>>

\* the loop of process_articles over a response of several articles
ProcessArticle == ProcessArticleFrom(RankingArticles, MaxArticles)

\* the loop of process_articles over a response of one article
ProcessOneArticle == ProcessArticleFrom(ScoringArticles, 1)

\* seq[:MAX_NEWS_ARTICLES] left out
KeepAll(seq) == seq

\* processed_articles[:MAX_NEWS_ARTICLES]
Truncate(seq) == Take(seq, MAX_NEWS_ARTICLES)

\* processed_articles.sort(...); final_articles = processed_articles[:MAX_NEWS_ARTICLES]; return
SortAndReturn ==
    /\ news_pc = "process"
    /\ Len(outcomes) >= 1
    /\ final_articles' = Truncate(SortDescending(processed))
    /\ news_pc' = "returned"
    /\ UNCHANGED <<outside_news, news_person, news_company, processed, outcomes>>

NewsNext ==
    \/ NewsUnavailable
    \/ NewsFetched
    \/ ProcessArticle
    \/ SortAndReturn

SpecNews == NewsInit /\ [][NewsNext]_vars

ScoreNext ==
    \/ NewsUnavailable
    \/ NewsFetched
    \/ ProcessOneArticle
    \/ SortAndReturn

SpecScore == NewsInit /\ [][ScoreNext]_vars

\* the loop of process_articles over a response of articles that differ in their keywords
ProcessKeywordArticle == ProcessArticleFrom(KeywordArticles, MaxCompared)

KeywordsNext ==
    \/ NewsUnavailable
    \/ NewsFetched
    \/ ProcessKeywordArticle
    \/ SortAndReturn

SpecKeywords == NewsInit /\ [][KeywordsNext]_vars

\* the business keywords matched in the content of an article of the response
PositiveHits(article) == Hits(business_keywords, ContentOf(ProcessedArticle(article)))

\* two articles for which everything but the matched business keywords is equal
AllElseEqual(a, b) ==
    /\ [a EXCEPT !.title = ""] = [b EXCEPT !.title = ""]
    /\ Hits(negative_keywords, ContentOf(ProcessedArticle(a))) = Hits(negative_keywords, ContentOf(ProcessedArticle(b)))
    /\ PersonScore(ProcessedArticle(a), news_person) = PersonScore(ProcessedArticle(b), news_person)
    /\ CompanyScore(ProcessedArticle(a), news_company) = CompanyScore(ProcessedArticle(b), news_company)

\* C14: every relevance score is an integer >= 0, and of two articles that are equal but for
\* their matched business keywords the one with more of them never has the smaller score
C14_ScoreNonNegativeMonotone ==
    /\ \A i \in 1..Len(outcomes) :
         outcomes[i].outcome = "scored" => outcomes[i].relevance_score \in Nat
    /\ \A i, j \in 1..Len(outcomes) :
         ( /\ outcomes[i].outcome = "scored"
           /\ outcomes[j].outcome = "scored"
           /\ AllElseEqual(outcomes[i].article, outcomes[j].article)
           /\ Cardinality(PositiveHits(outcomes[i].article)) <= Cardinality(PositiveHits(outcomes[j].article)) )
         => outcomes[i].relevance_score <= outcomes[j].relevance_score

\* two articles with a negative keyword, equal but for 0 and 3 business keywords: the first is
\* floored at 0, the second scores more
C14_Witness ==
    /\ Len(outcomes) = 2
    /\ news_company = ""
    /\ AllElseEqual(outcomes[1].article, outcomes[2].article)
    /\ PositiveHits(outcomes[1].article) = {}
    /\ Cardinality(PositiveHits(outcomes[2].article)) = 3
    /\ RawScore(ProcessedArticle(outcomes[1].article), news_person, news_company) < 0
    /\ outcomes[1].relevance_score = 0
    /\ outcomes[2].relevance_score > 0

\* the item of the scenario: titled "Acme announces new CEO", no other text, published on the
\* day of Now, from a source that earns no bonus
ScenarioItem(article) ==
    /\ article.title = "Acme announces new CEO"
    /\ article.description = ""
    /\ article.publishedAt = "2024-03-01T08:15:00Z"
    /\ article.source = SourceObject("Daily Blog")
    /\ article.url = "https://news.example/a"

\* C15: the item "Acme announces new CEO", published today, scored for organization "Acme Corp"
\* and a person who is not in the text, has the score 20 + 20 + 2 per matched keyword, and that
\* is less than the score of the same item with the person in its text
C15_ScenarioScore ==
    \A i \in 1..Len(outcomes) :
        (ScenarioItem(outcomes[i].article) /\ news_person = "Jane Doe" /\ news_company = "Acme Corp")
        => /\ outcomes[i].outcome = "scored"
           /\ outcomes[i].relevance_score = 20 + 20 + 2 * Cardinality(PositiveHits(outcomes[i].article))
           /\ outcomes[i].relevance_score
                < RelevanceOf([outcomes[i].article EXCEPT !.description = "Jane Doe"], news_person, news_company)

\* C16: the list search_person_news returns holds only items of score >= 10, at most
\* MAX_NEWS_ARTICLES of them, in non-increasing score order, items of equal score in the order
\* in which process_articles met them
C16_RankedList ==
    news_pc = "returned" =>
        /\ \A i \in 1..Len(final_articles) : final_articles[i].relevance_score >= RelevanceThreshold
        /\ Len(final_articles) <= MAX_NEWS_ARTICLES
        /\ \A i \in 1..(Len(final_articles) - 1) :
             final_articles[i].relevance_score >= final_articles[i + 1].relevance_score
        /\ \A i \in 1..Len(final_articles) :
             LET score == final_articles[i].relevance_score
                 met == SelectSeq(processed, LAMBDA x : x.relevance_score = score)
                 kept == SelectSeq(final_articles, LAMBDA x : x.relevance_score = score)
             IN  Len(kept) <= Len(met) /\ kept = SubSeq(met, 1, Len(kept))

\* six articles met, one below the threshold, five kept: the best first although met last,
\* then the two of equal score twice over, in the order in which they were met
C16_Witness ==
    /\ news_pc = "returned"
    /\ news_company = "Acme Corp"
    /\ Len(outcomes) = 6
    /\ Len(processed) = 5
    /\ Len(final_articles) = 5
    /\ [k \in 1..5 |-> final_articles[k].url] =
         << "https://news.example/1", "https://news.example/3", "https://news.example/2",
            "https://news.example/3", "https://news.example/2" >>
    /\ [k \in 1..5 |-> processed[k].url] =
         << "https://news.example/3", "https://news.example/2", "https://news.example/3",
            "https://news.example/2", "https://news.example/1" >>

\* C18: an article with a title and a url is scored whatever is missing, null or malformed among
\* its description, source name and published date, and the affected term adds nothing
C18_ScorerNeverFails ==
    \A i \in 1..Len(outcomes) :
        LET article == outcomes[i].article
            pa == ProcessedArticle(article)
        IN  (~SourceRaises(article.source) /\ ~Falsy(pa.title) /\ ~Falsy(pa.url)) \/ SourceRaises(article.source)
            => /\ outcomes[i].outcome # "error"
               /\ (outcomes[i].outcome = "scored" /\ ~DateParses(pa.published_at))
                    => outcomes[i].relevance_score =
                         calculate_relevance_score([pa EXCEPT !.published_at = "2000-01-01"], news_person, news_company)

(* ------------------------------------------------------------------ *)
(* routes/search.py: the routes that search by name                     *)
(* ------------------------------------------------------------------ *)

RECURSIVE AllCharsIn(_, _)
\* re.match of ^[...]+$ on a string without line breaks: every character is of the class
AllCharsIn(s, class) ==
    IF s = "" THEN TRUE
    ELSE /\ (IsAlpha(Char(s, 1)) \/ CharIn(Char(s, 1), class))
         /\ AllCharsIn(SubSeq(s, 2, Len(s)), class)

\* validate_person_name_format(name)
validate_person_name_format(name) ==
    /\ name # ""
    /\ Strip(name) # ""
    /\ AllCharsIn(Strip(name), " -'.")

\* validate_company_name_format(company)
validate_company_name_format(company) ==
    /\ company # ""
    /\ Strip(company) # ""
    /\ AllCharsIn(Strip(company), "0123456789 -'.&,()")

\* data.get(key) is falsy: the key is absent or its value is the empty string
NotGiven(v) == v = Missing \/ v = ""

\* the errors list of validate_search_by_name_request(data), meeting_context absent
validate_search_by_name_request(person, company) ==
    (IF NotGiven(person) THEN <<"person_name is required">>
     ELSE IF Len(Strip(person)) < 2 THEN <<"person_name must be at least 2 characters long">>
     ELSE IF Len(Strip(person)) > 100 THEN <<"person_name must be less than 100 characters">>
     ELSE IF ~validate_person_name_format(Strip(person)) THEN <<"person_name contains invalid characters">>
     ELSE <<>>)
    \o
    (IF NotGiven(company) THEN <<>>
     ELSE IF Len(Strip(company)) > 100 THEN <<"company_name must be less than 100 characters">>
     ELSE IF ~validate_company_name_format(Strip(company)) THEN <<"company_name contains invalid characters">>
     ELSE <<>>)

\* the only test search_linkedin_url_only makes of its request
url_only_check(person, company) ==
    IF NotGiven(person) THEN <<"person_name is required">> ELSE <<>>

\* sanitize_input(text, max_length)
sanitize_input(text, max_length) ==
    IF NotGiven(text) THEN ""
    ELSE IF Len(Strip(text)) > max_length THEN SubSeq(Strip(text), 1, max_length)
    ELSE Strip(text)

\* request bodies: (person_name, company_name)
RequestBodies ==
    { <<Missing, Missing>>,
      <<Missing, "Acme Corp">>,
      <<"", "">>,
      <<"  ", "">>,
      <<"J@ne D0e", "Acme Corp">>,
      <<"Jane Doe", "Acme <Corp>">>,
      <<"Jane Doe", " Acme Corp ">>,
      <<" Satya Nadella ", Missing>> }

\* a request has come to one of the two routes
RoutesInit ==
    /\ OutsideRouteIdle
    /\ route \in {"by_name", "linkedin_url_only"}
    /\ \E r \in RequestBodies : request_person = r[1] /\ request_company = r[2]
    /\ response = "none"

\* if not data: the body is an empty object
NoJson ==
    /\ pc = "idle"
    /\ response = "none"
    /\ request_person = Missing /\ request_company = Missing
    /\ response' = "error_400"
    /\ UNCHANGED <<outside_route, route, request_person, request_company>>

\* the errors of the request, as the route it came to finds them
RouteErrors ==
    IF route = "by_name" THEN validate_search_by_name_request(request_person, request_company)
    ELSE url_only_check(request_person, request_company)

\* create_validation_error_response
RejectRequest ==
    /\ pc = "idle"
    /\ response = "none"
    /\ ~(request_person = Missing /\ request_company = Missing)
    /\ RouteErrors # <<>>
    /\ response' = "validation_error"
    /\ UNCHANGED <<outside_route, route, request_person, request_company>>

\* the route hands the sanitized names to profile_service, which calls the scraper
CallScraper ==
    /\ pc = "idle"
    /\ response = "none"
    /\ ~(request_person = Missing /\ request_company = Missing)
    /\ RouteErrors = <<>>
    /\ person_name' = sanitize_input(request_person, 100)
    /\ company_name' = sanitize_input(request_company, 100)
    /\ pc' = "start"
    /\ UNCHANGED <<aux, manual_result, qi, ui, linkedin_urls, duckduckgo_result, di, pi, constructed_url,
                   linkedin_url, profile_data, result, strategies, origin, evaluated, rate_limited,
                   fault_seen, slept, google_reqs, ddg_reqs, probes, probed_ok>>

\* search_linkedin_profile, step by step
SearchLinkedinProfile ==
    \/ CheckManualDatabase
    \/ GoogleSearchStart
    \/ GoogleFault
    \/ GoogleRateLimited
    \/ GoogleBadStatus
    \/ GoogleOk
    \/ ValidateCandidates
    \/ DuckDuckGoStart
    \/ DuckDuckGoSleep
    \/ DuckDuckGoFault
    \/ DuckDuckGoBadStatus
    \/ DuckDuckGoOk
    \/ ConstructStart
    \/ ProbeSleep
    \/ ProbeOk
    \/ ProbeFail
    \/ RetestOk
    \/ RetestFail

\* the rest of scrape_profile_by_name, which only search_by_name reaches
ScrapeFound ==
    /\ route = "by_name"
    /\ \/ ScrapeNotFound
       \/ ScrapeProfileMock
       \/ ScrapeProfileFailed
       \/ ScrapeProfileOk
       \/ ValidateProfileMatch

\* search_by_name answers with what generate_profile_from_name returned
AnswerByName ==
    /\ route = "by_name"
    /\ pc = "done"
    /\ response = "none"
    /\ response' = IF result = NoProfile THEN "error_400" ELSE "profile"
    /\ UNCHANGED <<outside_route, route, request_person, request_company>>

\* search_linkedin_url_only answers with what search_linkedin_profile_only returned
AnswerUrlOnly ==
    /\ route = "linkedin_url_only"
    /\ pc = "search_returned"
    /\ response = "none"
    /\ response' = IF Truthy(linkedin_url) THEN "found" ELSE "not_found"
    /\ UNCHANGED <<outside_route, route, request_person, request_company>>

RoutesNext ==
    \/ NoJson
    \/ RejectRequest
    \/ CallScraper
    \/ SearchLinkedinProfile
    \/ ScrapeFound
    \/ AnswerByName
    \/ AnswerUrlOnly

SpecRoutes == RoutesInit /\ [][RoutesNext]_vars

\* a name that is absent, empty, blank, shorter than two characters or not made of letters,
\* spaces, hyphens, apostrophes and periods
InvalidName(person) ==
    \/ NotGiven(person)
    \/ Len(Strip(person)) < 2
    \/ ~validate_person_name_format(Strip(person))

\* C17: for a request whose name is empty or malformed, on either route, the manual database is
\* not consulted and no search request or probe is sent
C17_InvalidNameRunsNothing ==
    (route # "none" /\ InvalidName(request_person))
    => /\ strategies = <<>>
       /\ google_reqs = 0 /\ ddg_reqs = 0 /\ probes = 0

(* ------------------------------------------------------------------ *)
(* ai_processor.py: generate_briefing                                   *)
(* ------------------------------------------------------------------ *)

\* the confidence_score of create_fallback_briefing
FALLBACK_CONFIDENCE == 40

\* the default of briefing_data.get("confidence_score", 75)
DEFAULT_CONFIDENCE == 75

\* a JSON value: its type and its text
Json(type, text) == [type |-> type, text |-> text]

\* the text is an optional sign and decimal digits
IsIntLiteral(s) ==
    IF s # "" /\ Char(s, 1) \in {"-", "+"}
    THEN Len(s) > 1 /\ AllDigits(SubSeq(s, 2, Len(s)))
    ELSE s # "" /\ AllDigits(s)

\* the integer an optional sign and decimal digits denote
SignedInt(s) ==
    IF Char(s, 1) = "-" THEN 0 - ToInt(SubSeq(s, 2, Len(s)))
    ELSE IF Char(s, 1) = "+" THEN ToInt(SubSeq(s, 2, Len(s)))
    ELSE ToInt(s)

\* int(v) raises: TypeError for None, ValueError for a string that is no integer literal
IntRaises(v) ==
    \/ v.type = "null"
    \/ v.type = "str" /\ ~IsIntLiteral(Strip(v.text))

\* int(v) for a value on which it does not raise; a float is truncated towards zero
IntOf(v) ==
    CASE v.type = "int" -> SignedInt(v.text)
      [] v.type = "float" -> SignedInt(SubSeq(v.text, 1, Find(".", v.text) - 1))
      [] v.type = "str" -> SignedInt(Strip(v.text))
      [] v.type = "bool" -> IF v.text = "true" THEN 1 ELSE 0
      [] OTHER -> 0

\* int(briefing_data.get("confidence_score", 75))
ConfidenceOf(v) == IF v.type = "absent" THEN DEFAULT_CONFIDENCE ELSE IntOf(v)

\* validate_and_format_briefing(briefing_data), for a briefing_data on which int() does not raise
validate_and_format_briefing(kind, v) ==
    [ origin |-> "generated",
      executive_summary |-> "",
      recent_activity |-> "",
      confidence_score |-> IF kind = "dict" THEN ConfidenceOf(v) ELSE 0 ]

\* create_fallback_briefing(linkedin_data, news_articles)
create_fallback_briefing(data, count) ==
    [ origin |-> "fallback",
      executive_summary |-> data.name \o " is " \o data.title \o " at " \o data.company \o ".",
      recent_activity |-> IF count > 0 THEN "Found recent news mentions." ELSE "Recent news analysis not available.",
      confidence_score |-> FALLBACK_CONFIDENCE ]

\* profiles generate_briefing is called with
BriefingProfiles ==
    { [name |-> "Jane Doe", title |-> "Chief Executive Officer", company |-> "Acme Corp"],
      [name |-> "Satya Nadella", title |-> "Chairman and CEO", company |-> "Microsoft"],
      [name |-> "Unknown", title |-> "", company |-> ""] }

\* values the message of the model holds under "confidence_score"
ConfidenceValues ==
    { Json("int", "85"), Json("int", "100"), Json("int", "41"), Json("int", "40"), Json("int", "30"),
      Json("int", "0"), Json("int", "150"), Json("int", "-5"), Json("float", "39.9"),
      Json("str", "85"), Json("str", "high"), Json("null", "null"), Json("bool", "true"),
      Json("absent", "") }

\* status codes of the endpoint other than 200
BriefingErrorStatuses == {401, 404, 429, 500}

\* what requests.post and the decoding of its body can give
Replies ==
    { [status |-> st, kind |-> "none", confidence_score |-> Json("absent", "")] : st \in BriefingErrorStatuses }
    \cup { [status |-> 200, kind |-> "invalid_json", confidence_score |-> Json("absent", "")],
           [status |-> 200, kind |-> "list", confidence_score |-> Json("absent", "")] }
    \cup { [status |-> 200, kind |-> "dict", confidence_score |-> v] : v \in ConfidenceValues }

BriefingInit ==
    /\ OutsideBriefIdle
    /\ client_ready \in BOOLEAN
    /\ linkedin_data \in BriefingProfiles
    /\ news_count \in {0, 1}
    /\ brief_pc = "start"
    /\ ai_reply = NoReply
    /\ briefing = NoBriefing

\* return self.create_fallback_briefing(linkedin_data, news_articles)
ReturnFallback ==
    /\ briefing' = create_fallback_briefing(linkedin_data, news_count)
    /\ brief_pc' = "returned"

\* if not self.client_ready
ClientNotReady ==
    /\ brief_pc = "start"
    /\ ~client_ready
    /\ ReturnFallback
    /\ UNCHANGED <<outside_brief, client_ready, linkedin_data, news_count, ai_reply>>

\* requests.post raises: requests.exceptions.Timeout or another exception
PostRaises ==
    /\ brief_pc = "start"
    /\ client_ready
    /\ ReturnFallback
    /\ UNCHANGED <<outside_brief, client_ready, linkedin_data, news_count, ai_reply>>

\* requests.post returns
PostReturns ==
    /\ brief_pc = "start"
    /\ client_ready
    /\ ai_reply' \in Replies
    /\ brief_pc' = "posted"
    /\ UNCHANGED <<outside_brief, client_ready, linkedin_data, news_count, briefing>>

\* response.status_code is not 200
BadStatus ==
    /\ brief_pc = "posted"
    /\ ai_reply.status # 200
    /\ ReturnFallback
    /\ UNCHANGED <<outside_brief, client_ready, linkedin_data, news_count, ai_reply>>

\* json.loads(briefing_text) raises json.JSONDecodeError
MessageNotJson ==
    /\ brief_pc = "posted"
    /\ ai_reply.status = 200
    /\ ai_reply.kind = "invalid_json"
    /\ ReturnFallback
    /\ UNCHANGED <<outside_brief, client_ready, linkedin_data, news_count, ai_reply>>

\* int() raises in validate_and_format_briefing, and except Exception catches it
ScoreNotInt ==
    /\ brief_pc = "posted"
    /\ ai_reply.status = 200
    /\ ai_reply.kind = "dict"
    /\ IntRaises(ai_reply.confidence_score)
    /\ ReturnFallback
    /\ UNCHANGED <<outside_brief, client_ready, linkedin_data, news_count, ai_reply>>

\* return self.validate_and_format_briefing(briefing_data)
ReturnGenerated ==
    /\ brief_pc = "posted"
    /\ ai_reply.status = 200
    /\ \/ ai_reply.kind = "list"
       \/ ai_reply.kind = "dict" /\ ~IntRaises(ai_reply.confidence_score)
    /\ briefing' = validate_and_format_briefing(ai_reply.kind, ai_reply.confidence_score)
    /\ brief_pc' = "returned"
    /\ UNCHANGED <<outside_brief, client_ready, linkedin_data, news_count, ai_reply>>

BriefingNext ==
    \/ ClientNotReady
    \/ PostRaises
    \/ PostReturns
    \/ BadStatus
    \/ MessageNotJson
    \/ ScoreNotInt
    \/ ReturnGenerated

SpecBriefing == BriefingInit /\ [][BriefingNext]_vars

\* C19: the confidence_score of the fallback briefing is below the confidence_score of every
\* briefing that a successful generation returns, and that one is in 0..100
C19_FallbackBelowGenerated ==
    (brief_pc = "returned" /\ briefing.origin = "generated")
    => /\ create_fallback_briefing(linkedin_data, news_count).confidence_score < briefing.confidence_score
       /\ briefing.confidence_score \in 0..100

(* ------------------------------------------------------------------ *)
(* linkedin_scraper.py: concurrent scrape_profile on the shared session *)
(* ------------------------------------------------------------------ *)

\* USER_AGENTS of config.py
USER_AGENTS ==
    << "Mozilla/5.0 (Windows NT 10.0; Win64; x64) AppleWebKit/537.36 (KHTML, like Gecko) Chrome/120.0.0.0 Safari/537.36",
       "Mozilla/5.0 (Macintosh; Intel Mac OS X 10_15_7) AppleWebKit/537.36 (KHTML, like Gecko) Chrome/120.0.0.0 Safari/537.36",
       "Mozilla/5.0 (X11; Linux x86_64) AppleWebKit/537.36 (KHTML, like Gecko) Chrome/120.0.0.0 Safari/537.36" >>

\* the URLs the calls are given
CallUrls == { "https://www.linkedin.com/in/janedoe/", "https://www.linkedin.com/in/dave-smith/", "https://example.com/janedoe" }

\* status codes LinkedIn answers with
ProfileStatuses == {999, 429, 404}

\* ProfileService() at import of routes/search.py: LinkedInScraper.__init__ and setup_session;
\* then the requests come in
SessionInit ==
    /\ OutsideSessIdle
    /\ \E i \in 1..Len(USER_AGENTS) :
         session_headers = [user_agent |-> USER_AGENTS[i], referer |-> None, written_by |-> 0]
    /\ call_url \in [Calls -> CallUrls]
    /\ call_pc = [c \in Calls |-> "start"]
    /\ chosen_agent = [c \in Calls |-> None]
    /\ sent_headers = [c \in Calls |-> NoHeaders]
    /\ call_result = [c \in Calls |-> NoProfile]

\* if not self.validate_linkedin_url(linkedin_url): return None
InvalidUrl(c) ==
    /\ call_pc[c] = "start"
    /\ ~validate_linkedin_url(call_url[c])
    /\ call_pc' = [call_pc EXCEPT ![c] = "returned"]
    /\ UNCHANGED <<outside_sess, session_headers, call_url, chosen_agent, sent_headers, call_result>>

\* time.sleep(LINKEDIN_DELAY)
ScrapeSleep(c) ==
    /\ call_pc[c] = "start"
    /\ validate_linkedin_url(call_url[c])
    /\ call_pc' = [call_pc EXCEPT ![c] = "slept"]
    /\ UNCHANGED <<outside_sess, session_headers, call_url, chosen_agent, sent_headers, call_result>>

\* self.session.headers.update({'User-Agent': random.choice(USER_AGENTS), 'Referer': ...})
UpdateHeaders(c) ==
    /\ call_pc[c] = "slept"
    /\ \E i \in 1..Len(USER_AGENTS) :
         /\ chosen_agent' = [chosen_agent EXCEPT ![c] = USER_AGENTS[i]]
         /\ session_headers' = [user_agent |-> USER_AGENTS[i], referer |-> "https://www.google.com/", written_by |-> c]
    /\ call_pc' = [call_pc EXCEPT ![c] = "updated"]
    /\ UNCHANGED <<outside_sess, call_url, sent_headers, call_result>>

\* self.session.get(linkedin_url, ...) sends the headers of the session, and raises
GetRaises(c) ==
    /\ call_pc[c] = "updated"
    /\ sent_headers' = [sent_headers EXCEPT ![c] = session_headers]
    /\ call_pc' = [call_pc EXCEPT ![c] = "returned"]
    /\ UNCHANGED <<outside_sess, session_headers, call_url, chosen_agent, call_result>>

\* self.session.get(linkedin_url, ...) sends the headers of the session, and the call returns
\* mock data for status 999, None for the other statuses
GetAnswered(c) ==
    /\ call_pc[c] = "updated"
    /\ sent_headers' = [sent_headers EXCEPT ![c] = session_headers]
    /\ \E status \in ProfileStatuses :
         call_result' = [call_result EXCEPT ![c] = IF status = 999 THEN create_mock_profile_data(call_url[c])
                                                    ELSE NoProfile]
    /\ call_pc' = [call_pc EXCEPT ![c] = "returned"]
    /\ UNCHANGED <<outside_sess, session_headers, call_url, chosen_agent>>

SessionNext ==
    \E c \in Calls :
        \/ InvalidUrl(c)
        \/ ScrapeSleep(c)
        \/ UpdateHeaders(c)
        \/ GetRaises(c)
        \/ GetAnswered(c)

SpecSession == SessionInit /\ [][SessionNext]_vars

\* C20: no call reads state another call wrote: the request of each call carries the headers
\* that call set, as it does when the call runs alone
C20_NoSharedMutableState ==
    \A c \in Calls :
        sent_headers[c] # NoHeaders
        => /\ sent_headers[c].written_by = c
           /\ sent_headers[c].user_agent = chosen_agent[c]

(* ------------------------------------------------------------------ *)
(* linkedin_scraper.py: check_manual_database, call by call             *)
(* ------------------------------------------------------------------ *)

MaxManualLookups == 2

\* name_lower of check_manual_database
NameLower(pname) == Strip(Lower(pname))

\* company_lower of check_manual_database
CompanyLower(cname) == IF cname # "" THEN Strip(Lower(cname)) ELSE ""

\* the return statements tried with "Try without company" before "Try exact match"
lookup_step_without_company_first(pname, cname) ==
    IF DbIndex(NameLower(pname), "") # 0 THEN "without_company"
    ELSE IF DbIndex(NameLower(pname), CompanyLower(cname)) # 0 THEN "exact"
    ELSE IF CompanyLower(cname) # "" /\ PartialHits(NameLower(pname), CompanyLower(cname)) # {}
         THEN "partial"
    ELSE "none"

\* the return statement by which check_manual_database leaves
lookup_step(pname, cname) ==
    IF DbIndex(NameLower(pname), CompanyLower(cname)) # 0 THEN "exact"
    ELSE IF DbIndex(NameLower(pname), "") # 0 THEN "without_company"
    ELSE IF CompanyLower(cname) # "" /\ PartialHits(NameLower(pname), CompanyLower(cname)) # {}
         THEN "partial"
    ELSE "none"

\* check_manual_database without its two fallbacks
manual_lookup_exact_only(pname, cname) ==
    IF DbIndex(NameLower(pname), CompanyLower(cname)) # 0
    THEN manual_database[DbIndex(NameLower(pname), CompanyLower(cname))][3]
    ELSE None

\* check_manual_database as it is called
manual_lookup(pname, cname) == check_manual_database(pname, cname)

\* the names of manual_database
DatabaseNames == { manual_database[i][1] : i \in 1..Len(manual_database) }

\* the names looked up: every name of manual_database, some as a caller writes them, some unknown
LookupNames ==
    DatabaseNames \cup { "Satya Nadella", "  mark ZUCKERBERG ", "Satya", "Jane Doe", "" }

\* the organizations looked up: none, stored ones, parts of stored ones, ones that hold a stored one, others
LookupCompanies == { "", "Microsoft", " META ", "Virgin Group", "soft", "Acme Corp" }

LookupInit ==
    /\ OutsideLookupIdle
    /\ lookup_name \in LookupNames
    /\ lookup_companies = <<>>
    /\ lookup_steps = <<>>
    /\ lookup_results = <<>>

\* one call of check_manual_database(person_name, company_name)
ManualLookup ==
    /\ Len(lookup_results) < MaxManualLookups
    /\ \E company \in LookupCompanies :
         /\ lookup_companies' = Append(lookup_companies, company)
         /\ lookup_steps' = Append(lookup_steps, lookup_step(lookup_name, company))
         /\ lookup_results' = Append(lookup_results, manual_lookup(lookup_name, company))
    /\ UNCHANGED <<outside_lookup, lookup_name>>

LookupNext ==
    \/ ManualLookup

SpecLookup == LookupInit /\ [][LookupNext]_vars

\* the entries of manual_database under the key (name, organization), both normalized already
EntriesFor(name, company) ==
    { i \in 1..Len(manual_database) : manual_database[i][1] = name /\ manual_database[i][2] = company }

\* the entries of the name whose organization contains the queried one or is contained in it
PartialEntriesFor(name, company) ==
    { i \in 1..Len(manual_database) :
        /\ manual_database[i][1] = name
        /\ \/ Contains(company, manual_database[i][2])
           \/ Contains(manual_database[i][2], company) }

\* C21: check_manual_database returns at the first hit of: the exact (name, organization) key,
\* the (name, "") key, a same-name entry whose organization contains the queried one or is
\* contained in it; it returns None when none of the three hits
C21_LookupOrder ==
    \A k \in 1..Len(lookup_results) :
        LET name == Strip(Lower(lookup_name))
            company == Strip(Lower(lookup_companies[k]))
            exact == EntriesFor(name, company)
            bare == EntriesFor(name, "")
            partial == PartialEntriesFor(name, company)
        IN  /\ exact # {} => /\ lookup_steps[k] = "exact"
                             /\ \E i \in exact : lookup_results[k] = manual_database[i][3]
            /\ (exact = {} /\ bare # {}) => /\ lookup_steps[k] = "without_company"
                                            /\ \E i \in bare : lookup_results[k] = manual_database[i][3]
            /\ (exact = {} /\ bare = {} /\ partial # {}) => /\ lookup_steps[k] = "partial"
                                                            /\ \E i \in partial : lookup_results[k] = manual_database[i][3]
            /\ (exact = {} /\ bare = {} /\ partial = {}) => /\ lookup_steps[k] = "none"
                                                            /\ lookup_results[k] = None

\* a stored organization hits the exact key, a contradicting one falls back to the (name, "") key
C21_Witness ==
    /\ lookup_name = "  mark ZUCKERBERG "
    /\ lookup_companies = <<" META ", "Acme Corp">>
    /\ lookup_steps = <<"exact", "without_company">>
    /\ lookup_results = <<"https://www.linkedin.com/in/markzuckerberg/", "https://www.linkedin.com/in/markzuckerberg/">>

\* C25: for a name that has an entry in manual_database, check_manual_database returns the same
\* URL whatever organization is supplied, and the partial-company loop never decides
C25_ResultOfNameAlone ==
    (\E i \in 1..Len(manual_database) : manual_database[i][1] = Strip(Lower(lookup_name)))
    => /\ \A k \in 1..Len(lookup_results) : lookup_results[k] # None /\ lookup_results[k] = lookup_results[1]
       /\ \A k \in 1..Len(lookup_steps) : lookup_steps[k] # "partial"

\* an organization that holds the stored one and one that contradicts it give the same URL,
\* both by the (name, "") key
C25_Witness ==
    /\ lookup_name = "richard branson"
    /\ lookup_companies = <<"Virgin Group", "Acme Corp">>
    /\ lookup_steps = <<"without_company", "without_company">>
    /\ lookup_results = <<"https://www.linkedin.com/in/virginbranson/", "https://www.linkedin.com/in/virginbranson/">>

(* ------------------------------------------------------------------ *)
(* linkedin_scraper.py: url_matches_person_name, call by call           *)
(* ------------------------------------------------------------------ *)

\* the names searched for
UrlMatchNames ==
    { "Jane Doe", "David Smith", "Dave Smith", "Jane", "J Doe", "Jane Q Doe", "Mary Ann Lee", "" }

\* the profile URLs a result page can hold, and a URL that is no profile
UrlMatchCandidates ==
    { "https://www.linkedin.com/in/janedoe/",
      "https://www.linkedin.com/in/jdoe/",
      "https://www.linkedin.com/in/jane-smith/",
      "https://www.linkedin.com/in/john-doe-42/",
      "https://www.linkedin.com/in/Dave-Smith?trk=x",
      "https://www.linkedin.com/in/david-jones/",
      "https://www.linkedin.com/in/dave-jones/",
      "https://www.linkedin.com/in/annlee/",
      "https://www.linkedin.com/in/acme-corp/",
      "https://www.linkedin.com/company/janedoe/" }

UrlMatchInit ==
    /\ OutsideUmatchIdle
    /\ candidate_url \in UrlMatchCandidates
    /\ candidate_for \in UrlMatchNames
    /\ url_verdict = "none"

\* url_matches_person_name returns True
UrlAccepted ==
    /\ url_verdict = "none"
    /\ candidate_url # ""
    /\ url_matches_person_name(candidate_url, candidate_for)
    /\ url_verdict' = "accepted"
    /\ UNCHANGED <<outside_umatch, candidate_url, candidate_for>>

\* url_matches_person_name returns False
UrlRejected ==
    /\ url_verdict = "none"
    /\ candidate_url # ""
    /\ ~url_matches_person_name(candidate_url, candidate_for)
    /\ url_verdict' = "rejected"
    /\ UNCHANGED <<outside_umatch, candidate_url, candidate_for>>

UrlMatchNext ==
    \/ UrlAccepted
    \/ UrlRejected

SpecUrlMatch == UrlMatchInit /\ [][UrlMatchNext]_vars

\* the query tokens of length > 1, lower-cased
QueryTokens(name) == LongWordsLower(Split(name))

\* a token or its equivalent of the nickname table occurs in the identifier
TokenOccurs(token, identifier) ==
    \/ Contains(token, identifier)
    \/ DictHas(matcher_nickname_map, token) /\ Contains(DictGet(matcher_nickname_map, token), identifier)

\* C22: url_matches_person_name accepts an identifier only if at least min(2, token count) of
\* the query tokens (or an equivalent of each) occur in it, or the first token's leading
\* character and the surname both occur in it
C22_IdentifierNeedsTwoTokens ==
    url_verdict = "accepted" =>
        LET identifier == Lower(UsernameOf(candidate_url))
            tokens == QueryTokens(candidate_for)
            hits == { i \in 1..Len(tokens) : TokenOccurs(tokens[i], identifier) }
        IN  \/ tokens # <<>> /\ Cardinality(hits) >= (IF Len(tokens) < 2 THEN Len(tokens) ELSE 2)
            \/ /\ Len(tokens) >= 2
               /\ Contains(Char(tokens[1], 1), identifier)
               /\ Contains(Last(tokens), identifier)

(* ------------------------------------------------------------------ *)
(* linkedin_scraper.py: validate_profile_match, call by call            *)
(* ------------------------------------------------------------------ *)

MaxVerdicts == 2

\* validate_profile_match with a company match of Method 4 accepting the profile
validate_profile_match_company_accepts(profile, searched_name, searched_company) ==
    \/ validate_profile_match(profile, searched_name, "")
    \/ /\ Strip(Lower(profile.name)) # "" /\ Strip(Lower(searched_name)) # ""
       /\ searched_company # "" /\ Contains(Lower(searched_company), Lower(profile.company))

\* validate_profile_match as scrape_profile_by_name calls it
profile_verdict(profile, searched_name, searched_company) ==
    validate_profile_match(profile, searched_name, searched_company)

\* the return statement by which validate_profile_match leaves: "empty" for the test of the two
\* names, "1" to "4" for the methods, "none" for the last line
deciding_method(profile, searched_name, searched_company) ==
    LET profile_name == Strip(Lower(profile.name))
        searched_name_lower == Strip(Lower(searched_name))
        searched_words == Split(searched_name_lower)
        profile_words == Split(profile_name)
        min2 == IF Len(searched_words) < 2 THEN Len(searched_words) ELSE 2
    IN  IF profile_name = "" \/ searched_name_lower = "" THEN "empty"
        ELSE IF profile_name = searched_name_lower THEN "1"
        ELSE IF MatchingWords(searched_words, profile_words) >= min2 THEN "2"
        ELSE IF /\ Len(searched_words) >= 2
                /\ Contains(Last(searched_words), profile_name)
                /\ Contains(Char(searched_words[1], 1), profile_name) THEN "3"
        ELSE IF searched_company # "" /\ Contains(Lower(searched_company), Lower(profile.company)) THEN "4"
        ELSE "none"

\* the names searched for
VerdictNames == { "Jane Doe", "J Doe", "Doe", "Jane Ann Doe", "Acme Corp", "" }

\* the names read from the profile page
VerdictProfileNames == { "Jane Doe", "Jane Q. Doe", "Mary Doe", "John Smith", "Acme Corp Official", "" }

\* the companies read from the profile page
VerdictProfileCompanies == { "Acme Corp", "" }

\* the organizations searched for
VerdictCompanies == { "", "Acme Corp", "Globex" }

VerdictInit ==
    /\ OutsidePmatchIdle
    /\ \E name \in VerdictProfileNames, company \in VerdictProfileCompanies :
          match_profile = Profile(name, company, "https://www.linkedin.com/in/candidate/")
    /\ match_name \in VerdictNames
    /\ match_companies = <<>>
    /\ match_rules = <<>>
    /\ match_verdicts = <<>>

\* one call of validate_profile_match(profile_data, searched_name, searched_company)
ProfileMatchCall ==
    /\ Len(match_verdicts) < MaxVerdicts
    /\ \E company \in VerdictCompanies :
         /\ match_companies' = Append(match_companies, company)
         /\ match_rules' = Append(match_rules, deciding_method(match_profile, match_name, company))
         /\ match_verdicts' = Append(match_verdicts, profile_verdict(match_profile, match_name, company))
    /\ UNCHANGED <<outside_pmatch, match_profile, match_name>>

VerdictNext ==
    \/ ProfileMatchCall

SpecVerdict == VerdictInit /\ [][VerdictNext]_vars

\* rule 2 as stated: of the query tokens of length > 1, at least min(2, their number) are among
\* the tokens of the candidate's known name
TokenOverlap(profile, searched_name) ==
    LET tokens == SelectSeq(Split(Strip(Lower(searched_name))), LAMBDA w : Len(w) > 1)
        known == Split(Strip(Lower(profile.name)))
        hits == { i \in 1..Len(tokens) : InSeq(tokens[i], known) }
    IN  Cardinality(hits) >= (IF Len(tokens) < 2 THEN Len(tokens) ELSE 2)

\* C23: rule 2 of validate_profile_match fires exactly when, of the query tokens of length > 1,
\* at least min(2, their number) are whole tokens of the known name; the rules are tried in the
\* order 1, 2, 3, 4 and the first that fires decides
C23_TokenOverlapRule ==
    \A k \in 1..Len(match_rules) :
        LET both == Strip(Lower(match_profile.name)) # "" /\ Strip(Lower(match_name)) # ""
            exact == Strip(Lower(match_profile.name)) = Strip(Lower(match_name))
        IN  /\ (both /\ exact) => match_rules[k] = "1" /\ match_verdicts[k]
            /\ (both /\ ~exact) => (match_rules[k] = "2" <=> TokenOverlap(match_profile, match_name))
            /\ match_rules[k] = "2" => match_verdicts[k]

\* C26: two calls of validate_profile_match that differ only in searched_company return the
\* same boolean
C26_VerdictIgnoresCompany ==
    \A j, k \in 1..Len(match_verdicts) : match_verdicts[j] = match_verdicts[k]

\* the calls for "Jane Doe" against the profile "Acme Corp Official" of "Acme Corp": without an
\* organization the last line rejects, with "Acme Corp" Method 4 rejects
C26_Witness ==
    /\ match_name = "Jane Doe"
    /\ match_profile.name = "Acme Corp Official"
    /\ match_profile.company = "Acme Corp"
    /\ match_companies = <<"", "Acme Corp">>
    /\ match_rules = <<"none", "4">>
    /\ match_verdicts = <<FALSE, FALSE>>

(* ------------------------------------------------------------------ *)
(* linkedin_scraper.py: construct_linkedin_url, probe by probe          *)
(* ------------------------------------------------------------------ *)

\* the names construct_linkedin_url is called with
ConstructNames ==
    { "Jane Doe", "David Smith", "Dave Smith", "Frank Smith", "J Doe", "Doe Doe", "Mary Ann O'Neil", "Cher", "" }

ConstructInit ==
    /\ OutsideConstructIdle
    /\ construct_name \in ConstructNames
    /\ construct_pc = "start"
    /\ pattern_index = 0
    /\ probed = <<>>
    /\ construct_result = None

\* if not name_parts: return None
ConstructNoName ==
    /\ construct_pc = "start"
    /\ url_patterns(construct_name) = <<>>
    /\ construct_pc' = "returned"
    /\ UNCHANGED <<outside_construct, construct_name, pattern_index, probed, construct_result>>

\* url_patterns is built and the loop over it is entered
ConstructPatternsBuilt ==
    /\ construct_pc = "start"
    /\ url_patterns(construct_name) # <<>>
    /\ pattern_index' = 1
    /\ construct_pc' = "probe"
    /\ UNCHANGED <<outside_construct, construct_name, probed, construct_result>>

\* test_linkedin_url(url) is True: return url
ConstructProbeOk ==
    /\ construct_pc = "probe"
    /\ \E status \in HttpStatuses : ProbeAccepts(status)
    /\ probed' = Append(probed, ConstructedUrl(url_patterns(construct_name)[pattern_index]))
    /\ construct_result' = ConstructedUrl(url_patterns(construct_name)[pattern_index])
    /\ construct_pc' = "returned"
    /\ UNCHANGED <<outside_construct, construct_name, pattern_index>>

\* test_linkedin_url(url) is False: time.sleep(0.5) and the next pattern, None after the last
ConstructProbeFail ==
    /\ construct_pc = "probe"
    /\ \E status \in HttpStatuses : ~ProbeAccepts(status)
    /\ probed' = Append(probed, ConstructedUrl(url_patterns(construct_name)[pattern_index]))
    /\ IF pattern_index < Len(url_patterns(construct_name))
       THEN pattern_index' = pattern_index + 1 /\ construct_pc' = "probe"
       ELSE pattern_index' = pattern_index /\ construct_pc' = "returned"
    /\ UNCHANGED <<outside_construct, construct_name, construct_result>>

ConstructNext ==
    \/ ConstructNoName
    \/ ConstructPatternsBuilt
    \/ ConstructProbeOk
    \/ ConstructProbeFail

SpecConstruct == ConstructInit /\ [][ConstructNext]_vars

\* the equivalence class of a first name in the nickname table of construct_linkedin_url: the
\* name, its nickname, and the names it is the nickname of
EquivalenceClass(first) ==
    {first}
    \cup { construct_nickname_map[i][2] : i \in { j \in 1..Len(construct_nickname_map) : construct_nickname_map[j][1] = first } }
    \cup { construct_nickname_map[i][1] : i \in { j \in 1..Len(construct_nickname_map) : construct_nickname_map[j][2] = first } }

\* the seven shapes for one first-name variant and the surname, sanitized, in the stated order
Shapes(first, last) ==
    [ k \in 1..7 |->
        "https://www.linkedin.com/in/"
        \o KeepChars(<< first \o last, first \o "-" \o last, Char(first, 1) \o last, first \o "." \o last,
                        first \o "_" \o last, last \o first, last \o "-" \o first >>[k], "-._")
        \o "/" ]

\* the positions of probed that hold the seven shapes of a variant, in order
ShapesInOrder(first, last) ==
    \E start \in 1..(Len(probed) - 6) : \A k \in 1..7 : probed[start + k - 1] = Shapes(first, last)[k]

\* C24: for a name of two or more tokens, construct_linkedin_url probes, for the first name and
\* every member of its equivalence class crossed with the surname, exactly the seven shapes in
\* their order, nothing else, and stops at the first successful probe
C24_ProbedShapes ==
    (construct_pc = "returned" /\ Len(Split(Lower(construct_name))) >= 2) =>
        LET tokens == Split(Lower(construct_name))
            variants == EquivalenceClass(tokens[1])
            expected == { Shapes(v, Last(tokens))[k] : v \in variants, k \in 1..7 }
        IN  /\ \A i \in 1..Len(probed) : probed[i] \in expected
            /\ construct_result # None => construct_result = Last(probed)
            /\ construct_result = None =>
                 /\ Len(probed) = 7 * Cardinality(variants)
                 /\ \A v \in variants : ShapesInOrder(v, Last(tokens))

\* C27: within one call of construct_linkedin_url no URL is probed twice
C27_NoDuplicateProbe ==
    \A i, j \in 1..Len(probed) : i # j => probed[i] # probed[j]

(* ------------------------------------------------------------------ *)
(* news_collector.py: the recency term and the person bonus             *)
(* ------------------------------------------------------------------ *)

\* the score of a processed article without its recency term
ScoreWithoutRecency(pa, person, company) ==
    RawScore(pa, person, company) - RecencyScore(pa.published_at)

\* C29: the recency term of the relevance score is between 0 and 20 for every published date
\* that parses, dates later than now included, and 0 for a date that is missing or does not parse
C29_RecencyBounded ==
    \A i \in 1..Len(outcomes) :
        outcomes[i].outcome = "scored" =>
            LET pa == ProcessedArticle(outcomes[i].article)
                rest == ScoreWithoutRecency(pa, news_person, news_company)
            IN  /\ \E recency \in 0..20 : outcomes[i].relevance_score = NonNegative(rest + recency)
                /\ ~DateParses(pa.published_at) => outcomes[i].relevance_score = NonNegative(rest)

\* the person and company arguments get_company_news is called with and passes on
CompanyNewsCompanies == { "Acme Corp", "" }

\* the articles of a response to the company query
CompanyArticles ==
    { Article(t, d, "https://news.example/c", "2024-01-01T00:00:00Z", SourceObject("Daily Blog")) :
        t \in { "Acme Corp update", "Acme Corp strategy", "Weather", "Sports gossip", "" },
        d \in { "", "Jane Doe" } }

CompanyNewsInit ==
    /\ OutsideNewsIdle
    /\ news_person = ""
    /\ news_company \in CompanyNewsCompanies
    /\ news_pc = "fetch"
    /\ processed = <<>>
    /\ outcomes = <<>>
    /\ final_articles = <<>>

\* get_company_news returns [] : no company name, no API key, a status other than 200, or an
\* exception of the request
CompanyNewsUnavailable ==
    /\ news_pc = "fetch"
    /\ final_articles' = <<>>
    /\ news_pc' = "returned"
    /\ UNCHANGED <<outside_news, news_person, news_company, processed, outcomes>>

\* status 200: process_articles(articles, "", company_name) starts
CompanyNewsFetched ==
    /\ news_pc = "fetch"
    /\ news_company # ""
    /\ news_pc' = "process"
    /\ UNCHANGED <<outside_news, news_person, news_company, processed, outcomes, final_articles>>

\* the loop of process_articles over the response to the company query
ProcessCompanyArticle == ProcessArticleFrom(CompanyArticles, MaxCompared)

\* return process_articles(...)[:3]
CompanyNewsReturn ==
    /\ news_pc = "process"
    /\ final_articles' = Take(processed, 3)
    /\ news_pc' = "returned"
    /\ UNCHANGED <<outside_news, news_person, news_company, processed, outcomes>>

CompanyNewsNext ==
    \/ CompanyNewsUnavailable
    \/ CompanyNewsFetched
    \/ ProcessCompanyArticle
    \/ CompanyNewsReturn

SpecCompanyNews == CompanyNewsInit /\ [][CompanyNewsNext]_vars

\* a person name that is in none of the articles
AbsentPerson == "Xavier Quill"

\* C28: with an empty person name, as in get_company_news, no item receives the person bonus:
\* its score is the score the item has for a person who is not in its text
C28_NoBonusForEmptyPerson ==
    \A i \in 1..Len(outcomes) :
        (outcomes[i].outcome = "scored" /\ news_person = "") =>
            outcomes[i].relevance_score = RelevanceOf(outcomes[i].article, AbsentPerson, news_company)

(* ------------------------------------------------------------------ *)
(* search_linkedin_profile: the requests of one call                    *)
(* ------------------------------------------------------------------ *)

\* C30: one call of search_linkedin_profile issues at most 3 x 3 requests to the primary backend,
\* 5 to the secondary backend and 14 + 1 existence probes, whatever the responses are
C30_RequestsBounded ==
    /\ google_reqs <= 3 * 3
    /\ ddg_reqs <= 5
    /\ probes <= 14 + 1

\* a call that returned after every request it can issue: nine primary requests, five secondary
\* ones, the fourteen probes of a first name with a nickname and the second test
C30_Witness ==
    /\ pc = "search_returned"
    /\ strategies = <<"static", "primary", "secondary", "constructor">>
    /\ google_reqs = 9
    /\ ddg_reqs = 5
    /\ probes = 15

====
